---- MODULE Spec2Model ----
(***************************************************************************)
(* Model of the job execution and process-isolation engine of             *)
(* claude-server: the JobRunner (poll loop, per-job execution, cancel),   *)
(* the artifact scanner as far as it touches the job's session, the two   *)
(* sandbox command builders, the identity registry of IsolationService,   *)
(* the streaming reader of ClaudeService and the FileWatcherService.      *)
(*                                                                        *)
(* Every coroutine is cut at its awaits.  A database session is a local   *)
(* copy of the row taken at the select, plus the set of attributes        *)
(* changed since the last flush; commit writes exactly those attributes   *)
(* to the stored row (the UPDATE SQLAlchemy emits) and keeps the local    *)
(* copy (the code reads job.type and job.log_path after a commit, which   *)
(* an AsyncSession only allows when objects are not expired on commit).   *)
(***************************************************************************)
EXTENDS Integers, Sequences, FiniteSets, TLC

VARIABLES
    jobcfg,       \* job id -> the immutable columns of the Job row and its project
    db,           \* job id -> the persisted mutable columns of the Job row
    tasks,        \* sequence of _run_job tasks created by the poll loop
    procs,        \* task index -> the OS process that task spawned
    processes,    \* JobRunner._processes: job id -> handle (task index) or None
    cancels,      \* sequence of cancel_job invocations
    logs,         \* job id -> contents of the job's log file
    artifacts,    \* Artifact rows inserted by the scanner
    tree,         \* job id -> what is at each configured output path of its project
    store,        \* the files written to the artifacts directory
    limits,       \* how many tasks / cancel calls this run may create
    runner,       \* JobRunner._running, and the handles stop() found tracked
    host,         \* tools found on the host at import time, and settings
    sb,           \* last call of a sandbox builder: who, input, outcome
    users,        \* tenant id -> the stored unix_username / unix_uid / unix_gid
    accounts,     \* the host's accounts (/etc/passwd)
    groups,       \* the host's groups (/etc/group)
    owners,       \* tenant id -> uid owning the tenant's workspace directory
    idcalls,      \* sequence of provision_user / deprovision_user invocations
    agent,        \* the agent process of a streaming invocation and its output
    reader,       \* send_message_stream: position and local variables
    emitted,      \* the events send_message_stream has yielded, in order
    observers,    \* FileWatcherService._observers: the projects with an Observer
    handlers,     \* FileWatcherService._handlers: the projects with a handler
    callbacks,    \* FileWatcherService._callbacks: project -> set of listeners
    watches,      \* project -> number of started, not stopped Observers on its path
    roots,        \* project -> whether its root path exists
    conns,        \* the connections of the watch endpoint
    scheduled,    \* the loop's queue of _on_file_change calls not yet run
    fanout        \* the last run of _on_file_change, and how many have run

idVars == <<users, accounts, groups, owners, idcalls>>

streamVars == <<agent, reader, emitted>>

watchVars == <<observers, handlers, callbacks, watches, roots, conns,
              scheduled, fanout>>

vars == <<jobcfg, db, tasks, procs, processes, cancels, logs, artifacts,
          tree, store, limits, runner, host, sb, idVars, streamVars,
          watchVars>>

jobVars == <<jobcfg, db, tasks, procs, processes, cancels, logs, artifacts,
             tree, store, limits, runner>>

----------------------------------------------------------------------------
(* Bounds of the model *)

MaxJobs == 1
MaxTasks == 2
MaxCancels == 2
MaxIdCalls == 2
MaxLines == 3
MaxConns == 3
MaxEvents == 2
MaxCalls == 2

(* Program constants *)

PollLimit == 5
DefaultPort == 8080

None == 0

----------------------------------------------------------------------------
(* models/job.py, models/project.py *)

JobStatus == {"QUEUED", "RUNNING", "SUCCESS", "FAILED", "CANCELLED"}

JobType == {"BUILD_APK", "BUILD_WEB", "DEV_SERVER", "TEST", "CUSTOM_COMMAND"}

ProjectType == {"flutter", "web", "node", "python", "other"}

Terminal == {"SUCCESS", "FAILED", "CANCELLED"}

(* A command is a sequence of pieces.  A custom command is spelled out     *)
(* character by character so that "pattern in command" is a real substring *)
(* test; the fixed commands are spelled in words.                          *)

IsSubstring(pat, str) ==
    \E i \in 1..(Len(str) - Len(pat) + 1) :
        SubSeq(str, i, i + Len(pat) - 1) = pat

(* The backquote character, written by name *)
BACKQUOTE == "BACKQUOTE"

(* _sanitize_command: the denylist, in the order of the source *)
dangerous ==
    << <<";">>, <<"&", "&">>, <<"|", "|">>, <<"|">>, <<">">>, <<"<">>,
       <<BACKQUOTE>>, <<"$", "(">>,
       <<"r", "m", " ", "-", "r", "f">>, <<"s", "u", "d", "o">>,
       <<"c", "h", "m", "o", "d">>, <<"c", "h", "o", "w", "n">> >>

FirstDangerous(command) ==
    LET hits == {i \in 1..Len(dangerous) : IsSubstring(dangerous[i], command)}
    IN  IF hits = {} THEN None
        ELSE CHOOSE i \in hits : \A k \in hits : i <= k

(* Results of the functions that may raise: [ok, val] or [ok = FALSE, err] *)
Ok(v) == [ok |-> TRUE, val |-> v, err |-> <<>>]
Raise(e) == [ok |-> FALSE, val |-> <<>>, err |-> e]

(* the denylist applied as a prefix test instead of a substring test *)
sanitize_command_prefix(command) ==
    LET hits == {i \in 1..Len(dangerous) :
                    /\ Len(dangerous[i]) <= Len(command)
                    /\ SubSeq(command, 1, Len(dangerous[i])) = dangerous[i]}
    IN  IF hits # {}
        THEN Raise(<<"Dangerous pattern in command: ">>
                   \o dangerous[CHOOSE i \in hits : \A k \in hits : i <= k])
        ELSE Ok(command)

sanitize_command(command) ==
    LET i == FirstDangerous(command)
    IN  IF i # None
        THEN Raise(<<"Dangerous pattern in command: ">> \o dangerous[i])
        ELSE Ok(command)

build_command(cfg) ==
    CASE cfg.type = "BUILD_APK" -> Ok(<<"bash ", "scripts/build_flutter_apk.sh">>)
      [] cfg.type = "BUILD_WEB" -> Ok(<<"bash ", "scripts/build_flutter_web.sh">>)
      [] cfg.type = "TEST" ->
            IF cfg.ptype = "flutter" THEN Ok(<<"flutter test">>)
            ELSE IF cfg.ptype = "node" THEN Ok(<<"npm test">>)
            ELSE IF cfg.ptype = "python" THEN Ok(<<"pytest">>)
            ELSE Ok(<<"echo ", "No test command configured">>)
      [] cfg.type = "DEV_SERVER" ->
            IF cfg.ptype = "flutter"
            THEN Ok(<<"flutter run -d web-server --web-port=", ToString(DefaultPort)>>)
            ELSE IF cfg.ptype = "node"
            THEN Ok(<<"PORT=", ToString(DefaultPort), " npm start">>)
            ELSE Raise(<<"Dev server not supported for ", cfg.ptype>>)
      [] cfg.type = "CUSTOM_COMMAND" ->
            IF cfg.command = <<>>
            THEN Raise(<<"Custom command not specified">>)
            ELSE sanitize_command(cfg.command)
      [] OTHER -> Raise(<<"Unknown job type: ", cfg.type>>)

(* asyncio.create_subprocess_shell(cmd): the argument list executed *)
ShellArgv(cmd) == << <<"/bin/sh">>, <<"-c">>, cmd >>

(* artifact_scanner.BUILD_OUTPUTS: number of configured entries per type *)
BUILD_OUTPUTS(type) ==
    CASE type = "BUILD_APK" -> 3
      [] type = "BUILD_WEB" -> 1
      [] OTHER -> 0

(* The output trees of the projects of the jobs cfg: at each configured   *)
(* output path there is nothing, a file or a directory when the scanner   *)
(* looks                                                                  *)
TreesOf(cfg) ==
    LET RECURSIVE Build(_)
        Build(n) ==
            IF n = 0 THEN {<<>>}
            ELSE {Append(f, tr) :
                    f \in Build(n - 1),
                    tr \in [1..BUILD_OUTPUTS(cfg[n].type) -> {"absent", "file", "dir"}]}
    IN  Build(Len(cfg))

----------------------------------------------------------------------------
(* The job store and the sessions on it *)

NewRow == [status |-> "QUEUED", pid |-> None, log_path |-> FALSE,
           started |-> FALSE, finished |-> FALSE]

Timestamps == {"started", "finished"}

(* What a session holds of a loaded Job.  The loaded timestamps are never  *)
(* read by the engine, so only the fact that one was assigned is kept.     *)
Loaded(row) == [status |-> row.status, pid |-> row.pid, log_path |-> row.log_path]

(* Assigning an attribute of a loaded Job: it joins the next UPDATE only   *)
(* when the value differs from the loaded one (a fresh utcnow() always     *)
(* does).                                                                  *)
SetAttr(s, a, v) ==
    IF a \in Timestamps
    THEN [s EXCEPT !.dirty = @ \cup {a}]
    ELSE [s EXCEPT !.loc = [@ EXCEPT ![a] = v],
                   !.dirty = IF s.loc[a] # v THEN @ \cup {a} ELSE @]

(* db.commit(): the row after the UPDATE of the changed attributes *)
Commit(row, s) ==
    [a \in DOMAIN row |->
        IF a \notin s.dirty THEN row[a]
        ELSE IF a \in Timestamps THEN TRUE ELSE s.loc[a]]

Flushed(s) == [s EXCEPT !.dirty = {}]

(* leaving "async with get_db_context()": the session and its objects go *)
Closed(s) == [s EXCEPT !.dirty = {}, !.loc = Loaded(NewRow), !.scan = 0,
                          !.created = <<>>]

(* _fail_job up to its commit: the session part ... *)
fail_job_session(s) ==
    SetAttr(SetAttr(s, "status", "FAILED"), "finished", TRUE)

(* ... and the log part: the error is appended when job.log_path is set *)
fail_job_log(log, s, error) ==
    IF s.loc.log_path THEN Append(log, <<"ERROR: ">> \o error) ELSE log

NewTask(j) == [job |-> j, pc |-> "start", loc |-> Loaded(NewRow), dirty |-> {},
               scan |-> 0, created |-> <<>>]

NoProc == [state |-> "none", rc |-> None, termed |-> FALSE,
           killed |-> FALSE, cmd |-> <<>>]

Jobs == DOMAIN jobcfg
TaskIds == DOMAIN tasks
CancelIds == DOMAIN cancels

SetToSeq(S) ==
    LET RECURSIVE Build(_)
        Build(R) == IF R = {} THEN <<>>
                    ELSE LET x == CHOOSE y \in R : \A z \in R : y <= z
                         IN  <<x>> \o Build(R \ {x})
    IN  Build(S)

----------------------------------------------------------------------------
(* JobRunner._process_queued_jobs: one poll.  The select returns up to    *)
(* PollLimit of the QUEUED jobs and a _run_job task is created for each.  *)

Queued == {j \in Jobs : db[j].status = "QUEUED"}

process_queued_jobs ==
    \E S \in SUBSET Queued :
        /\ runner.running
        /\ S # {}
        /\ Cardinality(S) = IF Cardinality(Queued) < PollLimit
                            THEN Cardinality(Queued) ELSE PollLimit
        /\ Len(tasks) + Cardinality(S) <= limits.tasks
        /\ tasks' = tasks \o [i \in 1..Cardinality(S) |-> NewTask(SetToSeq(S)[i])]
        /\ procs' = procs \o [i \in 1..Cardinality(S) |-> NoProc]
        /\ UNCHANGED <<tree, store, jobcfg, db, processes, cancels, logs, artifacts,
                       limits, runner, host, sb, idVars, streamVars, watchVars>>

----------------------------------------------------------------------------
(* JobRunner._run_job, cut at its awaits *)

(* select Job, select Project; a missing project fails the job *)
RunFetch(t) ==
    /\ tasks[t].pc = "start"
    /\ LET j == tasks[t].job
           s == [tasks[t] EXCEPT !.loc = Loaded(db[j]), !.dirty = {}]
       IN  IF ~jobcfg[j].hasProject
           THEN /\ tasks' = [tasks EXCEPT ![t] =
                        [fail_job_session(s) EXCEPT !.pc = "failcommit"]]
                /\ logs' = [logs EXCEPT ![j] =
                        fail_job_log(@, s, <<"Project not found">>)]
           ELSE /\ tasks' = [tasks EXCEPT ![t] =
                        [SetAttr(SetAttr(SetAttr(s, "status", "RUNNING"),
                                         "started", TRUE),
                                 "log_path", TRUE)
                         EXCEPT !.pc = "fetched"]]
                /\ logs' = logs
    /\ UNCHANGED <<tree, store, jobcfg, db, procs, processes, cancels, artifacts,
                   limits, runner, host, sb, idVars, streamVars, watchVars>>

(* The commit of RUNNING, started_at and log_path, and the code up to the *)
(* next await: _build_command, where a ValueError fails the job, or else  *)
(* the log file is opened for writing (truncated) and the shell started.  *)
RunCommitRunning(t) ==
    /\ tasks[t].pc = "fetched"
    /\ LET j == tasks[t].job
           s == Flushed(tasks[t])
           r == build_command(jobcfg[j])
       IN  /\ db' = [db EXCEPT ![j] = Commit(@, tasks[t])]
           /\ IF ~r.ok
              THEN /\ tasks' = [tasks EXCEPT ![t] =
                           [fail_job_session(s) EXCEPT !.pc = "failcommit"]]
                   /\ logs' = [logs EXCEPT ![j] = fail_job_log(@, s, r.err)]
              ELSE /\ tasks' = [tasks EXCEPT ![t] = [s EXCEPT !.pc = "spawning"]]
                   /\ logs' = [logs EXCEPT ![j] = <<>>]
    /\ UNCHANGED <<tree, store, jobcfg, procs, processes, cancels, artifacts,
                   limits, runner, host, sb, idVars, streamVars, watchVars>>

(* create_subprocess_shell returned: the handle is registered and the pid *)
(* is set on the session's Job                                            *)
RunSpawned(t) ==
    /\ tasks[t].pc = "spawning"
    /\ LET j == tasks[t].job
       IN  /\ procs' = [procs EXCEPT ![t] =
                   [NoProc EXCEPT !.state = "alive",
                                  !.cmd = ShellArgv(build_command(jobcfg[j]).val)]]
           /\ processes' = [processes EXCEPT ![j] = t]
           /\ tasks' = [tasks EXCEPT ![t] =
                   [SetAttr(@, "pid", t) EXCEPT !.pc = "pidcommit"]]
    /\ UNCHANGED <<tree, store, jobcfg, db, cancels, logs, artifacts, limits, runner, host, sb, idVars, streamVars, watchVars>>

(* create_subprocess_shell raised: except Exception -> _fail_job *)
RunSpawnFailed(t) ==
    /\ tasks[t].pc = "spawning"
    /\ LET j == tasks[t].job
       IN  /\ tasks' = [tasks EXCEPT ![t] =
                   [fail_job_session(@) EXCEPT !.pc = "failcommit"]]
           /\ logs' = [logs EXCEPT ![j] =
                   fail_job_log(@, tasks[t], <<"spawn failed">>)]
    /\ UNCHANGED <<tree, store, jobcfg, db, procs, processes, cancels, artifacts,
                   limits, runner, host, sb, idVars, streamVars, watchVars>>

(* the commit of the pid *)
RunCommitPid(t) ==
    /\ tasks[t].pc = "pidcommit"
    /\ db' = [db EXCEPT ![tasks[t].job] = Commit(@, tasks[t])]
    /\ tasks' = [tasks EXCEPT ![t] = [Flushed(@) EXCEPT !.pc = "waiting"]]
    /\ UNCHANGED <<tree, store, jobcfg, procs, processes, cancels, logs, artifacts,
                   limits, runner, host, sb, idVars, streamVars, watchVars>>

(* The process exits and the loop sets its returncode.  A killed process  *)
(* has a non-zero code; any other may exit with 0 or not, also one that   *)
(* was sent SIGTERM (the signal can be handled).                          *)
ProcExit(t) ==
    /\ procs[t].state = "alive"
    /\ \E rc \in {0, 1} :
        /\ procs[t].killed => rc = 1
        /\ procs' = [procs EXCEPT ![t].state = "exited", ![t].rc = rc]
    /\ UNCHANGED <<tree, store, jobcfg, db, tasks, processes, cancels, logs, artifacts,
                   limits, runner, host, sb, idVars, streamVars, watchVars>>

(* process.wait() returned: the handle of the job is deleted (KeyError    *)
(* when there is none -> except Exception -> _fail_job) and the status    *)
(* is chosen from the return code                                         *)
RunAfterWait(t) ==
    /\ tasks[t].pc = "waiting"
    /\ procs[t].state = "exited"
    /\ LET j == tasks[t].job
           rc == procs[t].rc
           done(s) == [SetAttr(SetAttr(s, "finished", TRUE), "pid", None)
                       EXCEPT !.pc = "finalcommit"]
       IN  IF processes[j] = None
           THEN /\ tasks' = [tasks EXCEPT ![t] =
                        [fail_job_session(@) EXCEPT !.pc = "failcommit"]]
                /\ logs' = [logs EXCEPT ![j] =
                        fail_job_log(@, tasks[t], <<"KeyError">>)]
                /\ processes' = processes
           ELSE /\ processes' = [processes EXCEPT ![j] = None]
                /\ logs' = logs
                /\ tasks' = [tasks EXCEPT ![t] =
                     IF rc = 0
                     THEN IF jobcfg[j].type \in {"BUILD_APK", "BUILD_WEB"}
                          THEN [SetAttr(@, "status", "SUCCESS")
                                EXCEPT !.pc = "scanning", !.scan = 1]
                          ELSE done(SetAttr(@, "status", "SUCCESS"))
                     ELSE done(SetAttr(@, "status", "FAILED"))]
    /\ procs' = [procs EXCEPT ![t] =
            [@ EXCEPT !.state = "reaped", !.termed = FALSE, !.killed = FALSE]]
    /\ UNCHANGED <<tree, store, jobcfg, db, cancels, artifacts, limits, runner, host, sb, idVars, streamVars, watchVars>>

(* artifact_scanner._create_artifact for the entry k of job j, called by   *)
(* task t.  kind is what is at the source path; outcome is "raised" when  *)
(* making the artifacts directory raises, "none" when the zip or the copy *)
(* fails (logged, file_size None, no row), "stored" when n bytes were     *)
(* written.  A directory is zipped, anything else copied; the row records *)
(* the destination and the size stat() reports for it.                    *)
create_artifact_keeps_none(j, t, k, kind, outcome, n) ==
    LET ext == IF kind = "dir" THEN "zip" ELSE "copy"
    IN  IF outcome = "raised"
        THEN [raised |-> TRUE, files |-> {}, rows |-> <<>>]
        ELSE [raised |-> FALSE,
              files |-> IF outcome = "stored"
                        THEN {[id |-> <<t, k>>, ext |-> ext, size |-> n]} ELSE {},
              rows |-> << [job |-> j, entry |-> k, by |-> t, file |-> <<t, k>>,
                           ext |-> ext,
                           file_size |-> IF outcome = "stored" THEN n ELSE None] >>]

create_artifact(j, t, k, kind, outcome, n) ==
    LET ext == IF kind = "dir" THEN "zip" ELSE "copy"
    IN  IF outcome = "raised"
        THEN [raised |-> TRUE, files |-> {}, rows |-> <<>>]
        ELSE IF outcome = "none"
        THEN [raised |-> FALSE, files |-> {}, rows |-> <<>>]
        ELSE [raised |-> FALSE,
              files |-> {[id |-> <<t, k>>, ext |-> ext, size |-> n]},
              rows |-> << [job |-> j, entry |-> k, by |-> t, file |-> <<t, k>>,
                           ext |-> ext, file_size |-> n] >>]

(* the loop of scan_and_create leaving at the first entry that raises *)
scan_continue_abort(s, k, last, raised) ==
    IF last \/ raised
    THEN [SetAttr(SetAttr(s, "finished", TRUE), "pid", None)
          EXCEPT !.pc = "finalcommit"]
    ELSE [s EXCEPT !.scan = k + 1]

(* the loop of scan_and_create after the entry k: the next entry, or,     *)
(* after the last one, back in _run_job up to its final commit; an        *)
(* exception of the entry is logged and changes nothing                   *)
scan_continue(s, k, last, raised) ==
    IF last
    THEN [SetAttr(SetAttr(s, "finished", TRUE), "pid", None)
          EXCEPT !.pc = "finalcommit"]
    ELSE [s EXCEPT !.scan = k + 1]

(* the sizes a written file may have *)
Sizes == {1, 2}

(* artifact_scanner.scan_and_create, one configured entry per step: the   *)
(* path is absent and skipped, or _create_artifact is tried; a row is     *)
(* added to the session, appended to created_artifacts, and the session   *)
(* is committed - which flushes the Job of the same session as well.      *)
ScanEntry(t) ==
    /\ tasks[t].pc = "scanning"
    /\ LET j == tasks[t].job
           k == tasks[t].scan
           last == k >= BUILD_OUTPUTS(jobcfg[j].type)
       IN  IF tree[j][k] = "absent"
           THEN /\ tasks' = [tasks EXCEPT ![t] = scan_continue(@, k, last, FALSE)]
                /\ UNCHANGED <<artifacts, store, db>>
           ELSE \E outcome \in {"raised", "none", "stored"}, n \in Sizes :
                  LET r == create_artifact(j, t, k, tree[j][k], outcome, n)
                  IN  /\ store' = store \cup r.files
                      /\ artifacts' = artifacts \o r.rows
                      /\ IF r.rows # <<>>
                         THEN /\ db' = [db EXCEPT ![j] = Commit(@, tasks[t])]
                              /\ tasks' = [tasks EXCEPT ![t] =
                                    scan_continue(
                                        [Flushed(@) EXCEPT !.created = Append(@, k)],
                                        k, last, r.raised)]
                         ELSE /\ db' = db
                              /\ tasks' = [tasks EXCEPT ![t] =
                                    scan_continue(@, k, last, r.raised)]
    /\ UNCHANGED <<tree, jobcfg, procs, processes, cancels, logs, limits, runner, host, sb, idVars, streamVars, watchVars>>

(* the commit of the final status, finished_at and pid = None *)
RunCommitFinal(t) ==
    /\ tasks[t].pc = "finalcommit"
    /\ db' = [db EXCEPT ![tasks[t].job] = Commit(@, tasks[t])]
    /\ tasks' = [tasks EXCEPT ![t] = [Closed(@) EXCEPT !.pc = "done"]]
    /\ UNCHANGED <<tree, store, jobcfg, procs, processes, cancels, logs, artifacts,
                   limits, runner, host, sb, idVars, streamVars, watchVars>>

(* the commit that ends _fail_job *)
RunCommitFailed(t) ==
    /\ tasks[t].pc = "failcommit"
    /\ db' = [db EXCEPT ![tasks[t].job] = Commit(@, tasks[t])]
    /\ tasks' = [tasks EXCEPT ![t] = [Closed(@) EXCEPT !.pc = "failed"]]
    /\ UNCHANGED <<tree, store, jobcfg, procs, processes, cancels, logs, artifacts,
                   limits, runner, host, sb, idVars, streamVars, watchVars>>

----------------------------------------------------------------------------
(* JobRunner.cancel_job, cut at its awaits *)

NewCancel(j) == [job |-> j, pc |-> "called", handle |-> None,
                 seen |-> "QUEUED", sent |-> FALSE, ret |-> "pending",
                 at |-> db[j].status]

(* The call: with a handle in the map the process is sent SIGTERM and the *)
(* call sleeps; terminate() on a process that has already exited sends    *)
(* nothing and either returns or raises ProcessLookupError (-> False).    *)
(* Without a handle the call goes on to the job store.                    *)
CancelCall(j) ==
    /\ Len(cancels) < limits.cancels
    /\ LET h == processes[j]
           c == NewCancel(j)
       IN  IF h # None
           THEN IF procs[h].state = "alive"
                THEN /\ procs' = [procs EXCEPT ![h].termed = TRUE]
                     /\ cancels' = Append(cancels,
                            [c EXCEPT !.pc = "sleep", !.handle = h, !.sent = TRUE])
                ELSE /\ procs' = procs
                     /\ \E raised \in BOOLEAN :
                          cancels' = Append(cancels,
                            IF raised
                            THEN [c EXCEPT !.pc = "done", !.ret = "false"]
                            ELSE [c EXCEPT !.pc = "sleep", !.handle = h])
           ELSE /\ procs' = procs
                /\ cancels' = Append(cancels, [c EXCEPT !.pc = "nohandle"])
    /\ UNCHANGED <<tree, store, jobcfg, db, tasks, processes, logs, artifacts,
                   limits, runner, host, sb, idVars, streamVars, watchVars>>

(* after the grace period: kill() if the process has no returncode yet *)
CancelAfterSleep(c) ==
    /\ cancels[c].pc = "sleep"
    /\ LET h == cancels[c].handle
       IN  IF procs[h].state = "alive"
           THEN /\ procs' = [procs EXCEPT ![h].killed = TRUE]
                /\ cancels' = [cancels EXCEPT ![c].pc = "done", ![c].ret = "true",
                                              ![c].sent = TRUE]
           ELSE /\ procs' = procs
                /\ cancels' = [cancels EXCEPT ![c].pc = "done", ![c].ret = "true"]
    /\ UNCHANGED <<tree, store, jobcfg, db, tasks, processes, logs, artifacts,
                   limits, runner, host, sb, idVars, streamVars, watchVars>>

(* the select of the no-handle path *)
CancelFetch(c) ==
    /\ cancels[c].pc = "nohandle"
    /\ cancels' = [cancels EXCEPT ![c].pc = "fetched",
                                  ![c].seen = db[cancels[c].job].status]
    /\ UNCHANGED <<tree, store, jobcfg, db, tasks, procs, processes, logs, artifacts,
                   limits, runner, host, sb, idVars, streamVars, watchVars>>

(* the no-handle path marking only a job seen QUEUED *)
CancelCommit_queued_only(c) ==
    /\ cancels[c].pc = "fetched"
    /\ IF cancels[c].seen = "QUEUED"
       THEN /\ db' = [db EXCEPT ![cancels[c].job].status = "CANCELLED",
                                ![cancels[c].job].finished = TRUE]
            /\ cancels' = [cancels EXCEPT ![c].pc = "done", ![c].ret = "true",
                                          ![c].seen = "QUEUED"]
       ELSE /\ db' = db
            /\ cancels' = [cancels EXCEPT ![c].pc = "done", ![c].ret = "false",
                                          ![c].seen = "QUEUED"]
    /\ UNCHANGED <<tree, store, jobcfg, tasks, procs, processes, logs, artifacts,
                   limits, runner, host, sb, idVars, streamVars, watchVars>>

(* a job seen QUEUED or RUNNING is committed CANCELLED with finished_at   *)
CancelCommit(c) ==
    /\ cancels[c].pc = "fetched"
    /\ IF cancels[c].seen \in {"QUEUED", "RUNNING"}
       THEN /\ db' = [db EXCEPT ![cancels[c].job].status = "CANCELLED",
                                ![cancels[c].job].finished = TRUE]
            /\ cancels' = [cancels EXCEPT ![c].pc = "done", ![c].ret = "true",
                                          ![c].seen = "QUEUED"]
       ELSE /\ db' = db
            /\ cancels' = [cancels EXCEPT ![c].pc = "done", ![c].ret = "false",
                                          ![c].seen = "QUEUED"]
    /\ UNCHANGED <<tree, store, jobcfg, tasks, procs, processes, logs, artifacts,
                   limits, runner, host, sb, idVars, streamVars, watchVars>>

(* JobRunner.stop: the flag of the poll loop is cleared and every handle   *)
(* in the map is sent SIGTERM (terminate() on a process that has exited   *)
(* sends nothing, and what it raises is swallowed); nothing is awaited.   *)
Started == [running |-> TRUE, tracked |-> {}]

stop ==
    /\ runner.running
    /\ LET T == {processes[j] : j \in {k \in Jobs : processes[k] # None}}
       IN  /\ runner' = [running |-> FALSE, tracked |-> T]
           /\ procs' = [t \in DOMAIN procs |->
                   IF t \in T /\ procs[t].state = "alive"
                   THEN [procs[t] EXCEPT !.termed = TRUE]
                   ELSE procs[t]]
    /\ UNCHANGED <<tree, store, jobcfg, db, tasks, processes, cancels, logs,
                   artifacts, limits, host, sb, idVars, streamVars, watchVars>>

----------------------------------------------------------------------------
(* The sandbox command builders.  An argument list is a sequence of       *)
(* arguments, each argument a sequence of pieces.                         *)

Hosts == [firejail : BOOLEAN, bwrap : BOOLEAN, setpriv : BOOLEAN,
          sudo : BOOLEAN, require_sandbox : BOOLEAN,
          useradd : BOOLEAN, userdel : BOOLEAN]

RECURSIVE PathArgs(_, _)
PathArgs(flag, paths) ==
    IF paths = <<>> THEN <<>>
    ELSE <<flag, Head(paths)>> \o PathArgs(flag, Tail(paths))

RECURSIVE BindArgs(_, _)
BindArgs(flag, paths) ==
    IF paths = <<>> THEN <<>>
    ELSE <<flag, Head(paths), Head(paths)>> \o BindArgs(flag, Tail(paths))

(* a builder that keeps its argument list between calls: each call goes   *)
(* on from the list the call before left                                  *)
build_isolated_command_kept_list(h, cmd, uid, gid, allowed_paths, readonly_paths) ==
    Ok(sb.out.val
       \o << <<"firejail">>, <<"--force-uid=", ToString(uid)>>,
              <<"--force-gid=", ToString(gid)>> >>
       \o PathArgs(<<"--whitelist">>, allowed_paths)
       \o PathArgs(<<"--read-only">>, readonly_paths)
       \o << <<"--private">> >> \o cmd)

(* IsolationService.build_isolated_command *)
build_isolated_command(h, cmd, uid, gid, allowed_paths, readonly_paths) ==
    IF h.firejail
    THEN Ok(<< <<"firejail">>, <<"--quiet">>, <<"--noprofile">>,
               <<"--force-uid=", ToString(uid)>>,
               <<"--force-gid=", ToString(gid)>>,
               <<"--private-dev">>, <<"--private-tmp">>, <<"--noroot">>,
               <<"--nosound">>, <<"--no3d">>, <<"--nodvd">>, <<"--notv">>,
               <<"--nou2f">>, <<"--novideo">> >>
            \o PathArgs(<<"--whitelist">>, allowed_paths)
            \o PathArgs(<<"--read-only">>, readonly_paths)
            \o << <<"--private">> >> \o cmd)
    ELSE IF h.setpriv /\ h.sudo
    THEN Ok(<< <<"sudo">>, <<"setpriv">>, <<"--reuid=", ToString(uid)>>,
               <<"--regid=", ToString(gid)>>, <<"--init-groups">>, <<"--">> >>
            \o cmd)
    ELSE Ok(cmd)

(* ClaudeService._build_sandboxed_command *)
build_sandboxed_command(h, cmd, allowed_paths, readonly_paths) ==
    IF h.firejail
    THEN Ok(<< <<"firejail">>, <<"--quiet">>, <<"--noprofile">>,
               <<"--private-dev">>, <<"--private-tmp">>, <<"--noroot">>,
               <<"--nosound">>, <<"--no3d">>, <<"--nodvd">>, <<"--notv">>,
               <<"--nou2f">>, <<"--novideo">> >>
            \o PathArgs(<<"--whitelist">>, allowed_paths)
            \o PathArgs(<<"--read-only">>, readonly_paths)
            \o << <<"--private">> >> \o cmd)
    ELSE IF h.bwrap
    THEN Ok(<< <<"bwrap">>, <<"--unshare-all">>, <<"--die-with-parent">>,
               <<"--dev">>, <<"/dev">>, <<"--proc">>, <<"/proc">>,
               <<"--tmpfs">>, <<"/tmp">> >>
            \o BindArgs(<<"--bind">>, allowed_paths)
            \o BindArgs(<<"--ro-bind">>, readonly_paths)
            \o << <<"--ro-bind">>, <<"/usr">>, <<"/usr">>,
                  <<"--ro-bind">>, <<"/lib">>, <<"/lib">>,
                  <<"--ro-bind">>, <<"/lib64">>, <<"/lib64">>,
                  <<"--ro-bind">>, <<"/bin">>, <<"/bin">>,
                  <<"--ro-bind">>, <<"/etc/resolv.conf">>, <<"/etc/resolv.conf">>,
                  <<"--ro-bind">>, <<"/etc/ssl">>, <<"/etc/ssl">>,
                  <<"--ro-bind">>, <<"/etc/ca-certificates">>,
                  <<"/etc/ca-certificates">> >>
            \o cmd)
    ELSE IF h.require_sandbox
    THEN Raise(<<"SECURITY ERROR: Sandboxing required but no sandbox tool available.">>)
    ELSE Ok(cmd)

(* Inputs of the builder calls *)
BaseCmds == { << <<"claude">> >>, << <<"claude">>, <<"-p">>, <<"hello">> >> }
Uids == {10000, 10001}
PathLists == { <<>>, << <<"/users/u1/workspace">> >>,
               << <<"/users/u1/workspace">>, <<"/users/u1/workspace/.claude">> >> }
ReadOnlyLists == { <<>>, << <<"/usr/share/claude">> >> }

(* sb: the last call (who, arguments, outcome), the number of calls made  *)
(* and whether the call before had the same builder and arguments         *)
NoCall == [who |-> "none", cmd |-> <<>>, uid |-> None, allowed |-> <<>>,
           readonly |-> <<>>, out |-> Ok(<<>>), n |-> 0, repeat |-> FALSE]

SameCall(who, cmd, uid, a, r) ==
    /\ sb.who = who
    /\ sb.cmd = cmd
    /\ sb.uid = uid
    /\ sb.allowed = a
    /\ sb.readonly = r

CallBuildIsolated ==
    /\ sb.n < MaxCalls
    /\ \E cmd \in BaseCmds, uid \in Uids, a \in PathLists, r \in ReadOnlyLists :
         sb' = [who |-> "IsolationService", cmd |-> cmd, uid |-> uid,
                allowed |-> a, readonly |-> r,
                out |-> build_isolated_command(host, cmd, uid, uid, a, r),
                n |-> sb.n + 1,
                repeat |-> SameCall("IsolationService", cmd, uid, a, r)]
    /\ UNCHANGED <<jobVars, host, idVars, streamVars, watchVars>>

CallBuildSandboxed ==
    /\ sb.n < MaxCalls
    /\ \E cmd \in BaseCmds, a \in PathLists, r \in ReadOnlyLists :
         sb' = [who |-> "ClaudeService", cmd |-> cmd, uid |-> None,
                allowed |-> a, readonly |-> r,
                out |-> build_sandboxed_command(host, cmd, a, r),
                n |-> sb.n + 1,
                repeat |-> SameCall("ClaudeService", cmd, None, a, r)]
    /\ UNCHANGED <<jobVars, host, idVars, streamVars, watchVars>>

----------------------------------------------------------------------------
(* IsolationService: the identity registry.  A tenant id is its sequence   *)
(* of "-"-separated segments.  The host's account tools are modelled by    *)
(* what useradd, groupadd, userdel and groupdel do to the account and      *)
(* group lists; "by" names the call that created an entry (None for an     *)
(* entry that was on the host before).                                     *)

MIN_UID == 10000
MAX_UID == 60000
USERNAME_PREFIX == "claude_"

NoIdentity == [username |-> <<>>, uid |-> None, gid |-> None]

(* "user.unix_username and user.unix_uid" *)
HasIdentity(row) == row.username # <<>> /\ row.uid # None

(* the triple returned for a stored identity: gid falls back to the uid *)
StoredTriple(row) ==
    [kind |-> "triple", username |-> row.username, uid |-> row.uid,
     gid |-> IF row.gid # None THEN row.gid ELSE row.uid]

(* f"{USERNAME_PREFIX}{platform_user_id.split('-')[0]}" *)
UsernameOf(tenant) == <<USERNAME_PREFIX, Head(tenant)>>

(* _find_available_uid: the first uid of range(MIN_UID, MAX_UID) that no  *)
(* line of /etc/passwd uses; None stands for "No available UIDs in range" *)
RECURSIVE FirstFree(_, _)
FirstFree(u, used) ==
    IF u >= MAX_UID THEN None
    ELSE IF u \notin used THEN u
    ELSE FirstFree(u + 1, used)

find_available_uid(passwd) ==
    LET used == {a.uid : a \in {b \in passwd : MIN_UID <= b.uid /\ b.uid <= MAX_UID}}
    IN  FirstFree(MIN_UID, used)

IdCallIds == DOMAIN idcalls

Pending == [kind |-> "pending", username |-> <<>>, uid |-> None, gid |-> None]
Raised == [Pending EXCEPT !.kind = "raise"]
Returned(b) == [Pending EXCEPT !.kind = IF b THEN "true" ELSE "false"]
Triple(username, uid, gid) ==
    [kind |-> "triple", username |-> username, uid |-> uid, gid |-> gid]

NewIdCall(op, tenant) ==
    [op |-> op, tenant |-> tenant, pc |-> "select", username |-> <<>>,
     uid |-> None, ret |-> Pending]

(* a finished call keeps its result only *)
EndIdCall(c, ret) ==
    [c EXCEPT !.pc = "done", !.username = <<>>, !.uid = None, !.ret = ret]

HasGroupNamed(n) == \E g \in groups : g.name = n
HasGroupId(gid) == \E g \in groups : g.gid = gid
HasAccountNamed(n) == \E a \in accounts : a.name = n
HasAccountId(uid) == \E a \in accounts : a.uid = uid

(* provision_user is called: without useradd or sudo it raises at once,   *)
(* else it goes to its select                                             *)
ProvisionCall(tenant) ==
    /\ Len(idcalls) < limits.idcalls
    /\ idcalls' = Append(idcalls,
           IF ~host.useradd \/ ~host.sudo
           THEN EndIdCall(NewIdCall("provision", tenant), Raised)
           ELSE NewIdCall("provision", tenant))
    /\ UNCHANGED <<jobVars, streamVars, watchVars, host, sb, users, accounts, groups, owners>>

(* The select returned.  No such user raises; a stored identity is        *)
(* returned as it is; otherwise the username is derived and the account   *)
(* list scanned for a uid (no await in between).                          *)
ProvSelect(c) ==
    /\ idcalls[c].op = "provision"
    /\ idcalls[c].pc = "select"
    /\ LET tenant == idcalls[c].tenant
           uid == find_available_uid(accounts)
       IN  idcalls' = [idcalls EXCEPT ![c] =
             IF tenant \notin DOMAIN users THEN EndIdCall(@, Raised)
             ELSE IF HasIdentity(users[tenant])
             THEN EndIdCall(@, StoredTriple(users[tenant]))
             ELSE IF uid = None THEN EndIdCall(@, Raised)
             ELSE [@ EXCEPT !.pc = "groupadd", !.username = UsernameOf(tenant),
                            !.uid = uid]]
    /\ UNCHANGED <<jobVars, streamVars, watchVars, host, sb, users, accounts, groups, owners>>

(* sudo groupadd --gid gid username: the group is created when neither    *)
(* its name nor its gid is taken; a failure is only logged                *)
ProvGroupadd(c) ==
    /\ idcalls[c].op = "provision"
    /\ idcalls[c].pc = "groupadd"
    /\ groups' = IF HasGroupNamed(idcalls[c].username) \/ HasGroupId(idcalls[c].uid)
                 THEN groups
                 ELSE groups \cup {[name |-> idcalls[c].username,
                                    gid |-> idcalls[c].uid, by |-> c]}
    /\ idcalls' = [idcalls EXCEPT ![c].pc = "useradd"]
    /\ UNCHANGED <<jobVars, streamVars, watchVars, host, sb, users, accounts, owners>>

(* sudo useradd --uid uid --gid gid ... username.  A taken name is        *)
(* reported as "already exists" and provisioning goes on; a taken uid, a   *)
(* missing group or any other failure raises RuntimeError.                *)
ProvUseradd(c) ==
    /\ idcalls[c].op = "provision"
    /\ idcalls[c].pc = "useradd"
    /\ LET n == idcalls[c].username
           uid == idcalls[c].uid
       IN  IF HasAccountNamed(n)
           THEN /\ accounts' = accounts
                /\ idcalls' = [idcalls EXCEPT ![c].pc = "chown"]
           ELSE IF HasAccountId(uid) \/ ~HasGroupId(uid)
           THEN /\ accounts' = accounts
                /\ idcalls' = [idcalls EXCEPT ![c] = EndIdCall(@, Raised)]
           ELSE \E rejected \in BOOLEAN :
                  IF rejected
                  THEN /\ accounts' = accounts
                       /\ idcalls' = [idcalls EXCEPT ![c] = EndIdCall(@, Raised)]
                  ELSE /\ accounts' = accounts \cup
                              {[name |-> n, uid |-> uid, gid |-> uid, by |-> c]}
                       /\ idcalls' = [idcalls EXCEPT ![c].pc = "chown"]
    /\ UNCHANGED <<jobVars, streamVars, watchVars, host, sb, users, groups, owners>>

(* workspace.mkdir and sudo chown -R uid:gid workspace *)
ProvChown(c) ==
    /\ idcalls[c].op = "provision"
    /\ idcalls[c].pc = "chown"
    /\ owners' = [owners EXCEPT ![idcalls[c].tenant] = idcalls[c].uid]
    /\ idcalls' = [idcalls EXCEPT ![c].pc = "commit"]
    /\ UNCHANGED <<jobVars, streamVars, watchVars, host, sb, users, accounts, groups>>

(* users.unix_username and users.unix_uid are declared unique *)
UniqueViolation(tenant, username, uid) ==
    \E o \in DOMAIN users :
        /\ o # tenant
        /\ \/ users[o].username = username
           \/ users[o].uid = uid

(* the commit of the mapping, on a store that does not enforce uniqueness *)
ProvCommit_no_unique(c) ==
    /\ idcalls[c].op = "provision"
    /\ idcalls[c].pc = "commit"
    /\ LET tenant == idcalls[c].tenant
           n == idcalls[c].username
           uid == idcalls[c].uid
       IN  /\ users' = [users EXCEPT ![tenant] =
                        [username |-> n, uid |-> uid, gid |-> uid]]
           /\ idcalls' = [idcalls EXCEPT ![c] = EndIdCall(@, Triple(n, uid, uid))]
    /\ UNCHANGED <<jobVars, streamVars, watchVars, host, sb, accounts, groups, owners>>

(* the commit of the mapping; an IntegrityError is re-raised *)
ProvCommit(c) ==
    /\ idcalls[c].op = "provision"
    /\ idcalls[c].pc = "commit"
    /\ LET tenant == idcalls[c].tenant
           n == idcalls[c].username
           uid == idcalls[c].uid
       IN  IF UniqueViolation(tenant, n, uid)
           THEN /\ users' = users
                /\ idcalls' = [idcalls EXCEPT ![c] = EndIdCall(@, Raised)]
           ELSE /\ users' = [users EXCEPT ![tenant] =
                             [username |-> n, uid |-> uid, gid |-> uid]]
                /\ idcalls' = [idcalls EXCEPT ![c] = EndIdCall(@, Triple(n, uid, uid))]
    /\ UNCHANGED <<jobVars, streamVars, watchVars, host, sb, accounts, groups, owners>>

(* deprovision_user is called: without userdel or sudo it returns False *)
DeprovisionCall(tenant) ==
    /\ Len(idcalls) < limits.idcalls
    /\ idcalls' = Append(idcalls,
           IF ~host.userdel \/ ~host.sudo
           THEN EndIdCall(NewIdCall("deprovision", tenant), Returned(FALSE))
           ELSE NewIdCall("deprovision", tenant))
    /\ UNCHANGED <<jobVars, streamVars, watchVars, host, sb, users, accounts, groups, owners>>

(* the select returned: nothing to do without a user or a stored username *)
DeprovSelect(c) ==
    /\ idcalls[c].op = "deprovision"
    /\ idcalls[c].pc = "select"
    /\ LET tenant == idcalls[c].tenant
       IN  idcalls' = [idcalls EXCEPT ![c] =
             IF tenant \notin DOMAIN users \/ users[tenant].username = <<>>
             THEN EndIdCall(@, Returned(TRUE))
             ELSE [@ EXCEPT !.pc = "userdel", !.username = users[tenant].username]]
    /\ UNCHANGED <<jobVars, streamVars, watchVars, host, sb, users, accounts, groups, owners>>

(* sudo userdel username: the account is removed, or userdel fails (the   *)
(* account is in use, or there is none); a failure is only logged         *)
DeprovUserdel(c) ==
    /\ idcalls[c].op = "deprovision"
    /\ idcalls[c].pc = "userdel"
    /\ \E removed \in BOOLEAN :
         accounts' = IF removed
                     THEN {a \in accounts : a.name # idcalls[c].username}
                     ELSE accounts
    /\ idcalls' = [idcalls EXCEPT ![c].pc = "groupdel"]
    /\ UNCHANGED <<jobVars, streamVars, watchVars, host, sb, users, groups, owners>>

(* sudo groupdel username: refused while the group is the primary group   *)
(* of an account; its outcome is not looked at                            *)
DeprovGroupdel(c) ==
    /\ idcalls[c].op = "deprovision"
    /\ idcalls[c].pc = "groupdel"
    /\ groups' = {g \in groups :
                     \/ g.name # idcalls[c].username
                     \/ \E a \in accounts : a.gid = g.gid}
    /\ idcalls' = [idcalls EXCEPT ![c].pc = "commit"]
    /\ UNCHANGED <<jobVars, streamVars, watchVars, host, sb, users, accounts, owners>>

(* the commit that clears the three stored fields *)
DeprovCommit(c) ==
    /\ idcalls[c].op = "deprovision"
    /\ idcalls[c].pc = "commit"
    /\ users' = [users EXCEPT ![idcalls[c].tenant] = NoIdentity]
    /\ idcalls' = [idcalls EXCEPT ![c] = EndIdCall(@, Returned(TRUE))]
    /\ UNCHANGED <<jobVars, streamVars, watchVars, host, sb, accounts, groups, owners>>

(* Inputs of the registry: tenant ids (two of them share their first      *)
(* segment), the tenants in the user store, accounts already on the host  *)
TenantIds == { <<"ab12", "01">>, <<"ab12", "02">>, <<"cd34", "03">> }

StoredTenants == { {<<"ab12", "01">>, <<"ab12", "02">>},
                   {<<"ab12", "01">>, <<"cd34", "03">>} }

HostAccounts ==
    { {},
      {[name |-> <<"svc">>, uid |-> MIN_UID, gid |-> MIN_UID, by |-> None]},
      {[name |-> <<USERNAME_PREFIX, "ab12">>, uid |-> MIN_UID + 1,
        gid |-> MIN_UID + 1, by |-> None]} }

IdentityHosts == { h \in Hosts : /\ h.require_sandbox /\ h.firejail /\ h.bwrap
                                 /\ h.setpriv }

----------------------------------------------------------------------------
(* ClaudeService.send_message_stream.  The agent writes one JSON document  *)
(* per line.  A line is [kind, text]; on the wire it is the unit naming    *)
(* its JSON (all ASCII, so cutting it changes nothing), the UTF-8 bytes of *)
(* its text, and a newline.  A character is one code point.                *)

ReadSize == 4096

NEWLINE == "LF"
EACUTE == "e-acute"
REPLACEMENT == "U+FFFD"

(* str.encode("utf-8"): one byte for an ASCII character, two for e-acute *)
RECURSIVE Encode(_)
Encode(text) ==
    IF text = <<>> THEN <<>>
    ELSE (IF Head(text) = EACUTE THEN <<"C3", "A9">> ELSE <<Head(text)>>)
         \o Encode(Tail(text))

(* bytes.decode("utf-8", errors="replace"): a lead byte without its       *)
(* continuation, and a continuation without its lead, become U+FFFD       *)
RECURSIVE Decode(_)
Decode(bytes) ==
    IF bytes = <<>> THEN <<>>
    ELSE IF Head(bytes) = "C3"
    THEN IF Len(bytes) >= 2 /\ bytes[2] = "A9"
         THEN <<EACUTE>> \o Decode(SubSeq(bytes, 3, Len(bytes)))
         ELSE <<REPLACEMENT>> \o Decode(Tail(bytes))
    ELSE IF Head(bytes) = "A9"
    THEN <<REPLACEMENT>> \o Decode(Tail(bytes))
    ELSE <<Head(bytes)>> \o Decode(Tail(bytes))

Line(kind, text) == [kind |-> kind, text |-> text]

LineBytes(line) ==
    IF line.kind = "blank" THEN <<" ", NEWLINE>>
    ELSE <<line.kind>> \o Encode(line.text) \o <<NEWLINE>>

RECURSIVE StreamBytes(_)
StreamBytes(lines) ==
    IF lines = <<>> THEN <<>>
    ELSE LineBytes(Head(lines)) \o StreamBytes(Tail(lines))

(* str.strip() *)
RECURSIVE Strip(_)
Strip(s) ==
    IF s = <<>> THEN s
    ELSE IF Head(s) = " " THEN Strip(Tail(s))
    ELSE IF s[Len(s)] = " " THEN Strip(SubSeq(s, 1, Len(s) - 1))
    ELSE s

(* the events yielded *)
TextEvent(text) == [type |-> "text", text |-> text]
Activity(what) == [type |-> "activity", text |-> <<what>>]
ErrorEvent == [type |-> "error", text |-> <<>>]
DoneEvent(full_response) == [type |-> "done", text |-> full_response]

(* the same body with a text block start that looks at the flag only *)
HandleEvent_flag_only(st, kind, text) ==
    CASE kind = "tool_start" ->
            [st EXCEPT !.last_block_was_tool = TRUE,
                       !.out = Append(@, Activity("tool_start"))]
      [] kind = "text_start" ->
            IF st.last_block_was_tool
            THEN [st EXCEPT !.full_response = @ \o <<NEWLINE, NEWLINE>>,
                            !.out = Append(@, TextEvent(<<NEWLINE, NEWLINE>>)),
                            !.last_block_was_tool = FALSE]
            ELSE [st EXCEPT !.last_block_was_tool = FALSE]
      [] kind = "text_delta" ->
            IF text # <<>>
            THEN [st EXCEPT !.full_response = @ \o text,
                            !.out = Append(@, TextEvent(text))]
            ELSE st
      [] kind = "input_json_delta" ->
            [st EXCEPT !.out = Append(@, Activity("tool_input"))]
      [] kind = "block_stop" ->
            [st EXCEPT !.out = Append(@, Activity("tool_end"))]
      [] kind = "assistant" ->
            [st EXCEPT !.out = Append(@, Activity("tool_call"))]
      [] kind = "result" ->
            IF text # <<>> /\ Len(text) > Len(st.full_response)
            THEN [st EXCEPT
                    !.out = Append(@, TextEvent(
                              SubSeq(text, Len(st.full_response) + 1, Len(text)))),
                    !.full_response = text]
            ELSE st
      [] OTHER -> st

(* the body of "try: event = json.loads(line) ..." for a JSON object *)
HandleEvent(st, kind, text) ==
    CASE kind = "tool_start" ->
            [st EXCEPT !.last_block_was_tool = TRUE,
                       !.out = Append(@, Activity("tool_start"))]
      [] kind = "text_start" ->
            IF st.last_block_was_tool /\ st.full_response # <<>>
            THEN [st EXCEPT !.full_response = @ \o <<NEWLINE, NEWLINE>>,
                            !.out = Append(@, TextEvent(<<NEWLINE, NEWLINE>>)),
                            !.last_block_was_tool = FALSE]
            ELSE [st EXCEPT !.last_block_was_tool = FALSE]
      [] kind = "text_delta" ->
            IF text # <<>>
            THEN [st EXCEPT !.full_response = @ \o text,
                            !.out = Append(@, TextEvent(text))]
            ELSE st
      [] kind = "input_json_delta" ->
            [st EXCEPT !.out = Append(@, Activity("tool_input"))]
      [] kind = "block_stop" ->
            [st EXCEPT !.out = Append(@, Activity("tool_end"))]
      [] kind = "assistant" ->
            [st EXCEPT !.out = Append(@, Activity("tool_call"))]
      [] kind = "result" ->
            IF text # <<>> /\ Len(text) > Len(st.full_response)
            THEN [st EXCEPT
                    !.out = Append(@, TextEvent(
                              SubSeq(text, Len(st.full_response) + 1, Len(text)))),
                    !.full_response = text]
            ELSE st
      [] OTHER -> st

(* 'while "\n" in buffer': every complete line of the buffer is taken out *)
(* and handled.  A line that is empty after strip() or is not JSON is     *)
(* skipped; a JSON document without .get (a list, a number, null) raises  *)
(* AttributeError, which ends the whole loop.                             *)
RECURSIVE ProcessLines(_)
ProcessLines(st) ==
    IF \A i \in 1..Len(st.buffer) : st.buffer[i] # NEWLINE
    THEN st
    ELSE LET i == CHOOSE k \in 1..Len(st.buffer) :
                     /\ st.buffer[k] = NEWLINE
                     /\ \A m \in 1..(k - 1) : st.buffer[m] # NEWLINE
             line == Strip(SubSeq(st.buffer, 1, i - 1))
             st1 == [st EXCEPT !.buffer = SubSeq(@, i + 1, Len(@))]
         IN  IF line = <<>> \/ Head(line) = "invalid"
             THEN ProcessLines(st1)
             ELSE IF Head(line) = "nonobject"
             THEN [st1 EXCEPT !.raised = TRUE]
             ELSE ProcessLines(HandleEvent(st1, Head(line), Tail(line)))

NoAgent == [state |-> "none", lines |-> <<>>, rest |-> <<>>]

NewReader == [pc |-> "start", buffer |-> <<>>, full_response |-> <<>>,
              last_block_was_tool |-> FALSE]

(* what is left of the reader once the generator has returned *)
EndReader(r) == [r EXCEPT !.pc = "ended", !.buffer = <<>>]

StreamCmd == << <<"claude">>, <<"--print">>, <<"--output-format">>,
                <<"stream-json">> >>
StreamPaths == << <<"/users/u1/workspace">>, <<"/users/u1/workspace/.claude">> >>

(* the command is sandboxed and the process created; either may raise,    *)
(* and "except Exception" turns that into an error event                  *)
StreamSpawn ==
    /\ reader.pc = "start"
    /\ \E spawned \in BOOLEAN :
         IF spawned /\ build_sandboxed_command(host, StreamCmd, StreamPaths, <<>>).ok
         THEN /\ agent' = [agent EXCEPT !.state = "alive"]
              /\ reader' = [reader EXCEPT !.pc = "reading"]
              /\ emitted' = emitted
         ELSE /\ agent' = agent
              /\ reader' = EndReader(reader)
              /\ emitted' = Append(emitted, ErrorEvent)
    /\ UNCHANGED <<jobVars, idVars, watchVars, host, sb>>

(* process.stdout.read(4096) returned a chunk: whatever part of the       *)
(* output had arrived, at most ReadSize bytes                             *)
StreamReadChunk ==
    /\ reader.pc = "reading"
    /\ agent.state # "none"
    /\ \E k \in 1..(IF Len(agent.rest) < ReadSize THEN Len(agent.rest) ELSE ReadSize) :
         LET chunk == SubSeq(agent.rest, 1, k)
             st == ProcessLines(
                     [buffer |-> reader.buffer \o Decode(chunk),
                      full_response |-> reader.full_response,
                      last_block_was_tool |-> reader.last_block_was_tool,
                      out |-> <<>>, raised |-> FALSE])
             r == [reader EXCEPT !.buffer = st.buffer,
                                 !.full_response = st.full_response,
                                 !.last_block_was_tool = st.last_block_was_tool]
         IN  /\ agent' = [agent EXCEPT !.rest = SubSeq(@, k + 1, Len(@))]
             /\ IF st.raised
                THEN /\ reader' = EndReader(r)
                     /\ emitted' = emitted \o st.out \o <<ErrorEvent>>
                ELSE /\ reader' = r
                     /\ emitted' = emitted \o st.out
    /\ UNCHANGED <<jobVars, idVars, watchVars, host, sb>>

(* read() returned b"": the agent has closed its output *)
StreamReadEof ==
    /\ reader.pc = "reading"
    /\ agent.state = "exited"
    /\ agent.rest = <<>>
    /\ reader' = [reader EXCEPT !.pc = "waiting"]
    /\ UNCHANGED <<jobVars, idVars, watchVars, host, sb, agent, emitted>>

(* nothing arrived for the whole timeout: an error event, and the loop is *)
(* left                                                                   *)
StreamReadTimeout ==
    /\ reader.pc = "reading"
    /\ agent.state = "alive"
    /\ reader' = [reader EXCEPT !.pc = "waiting"]
    /\ emitted' = Append(emitted, ErrorEvent)
    /\ UNCHANGED <<jobVars, idVars, watchVars, host, sb, agent>>

(* the agent process exits *)
AgentExit ==
    /\ agent.state = "alive"
    /\ agent' = [agent EXCEPT !.state = "exited"]
    /\ UNCHANGED <<jobVars, idVars, watchVars, host, sb, reader, emitted>>

(* process.wait() and stderr.read() returned: the final event *)
StreamWaited ==
    /\ reader.pc = "waiting"
    /\ agent.state = "exited"
    /\ emitted' = Append(emitted, DoneEvent(reader.full_response))
    /\ reader' = EndReader(reader)
    /\ UNCHANGED <<jobVars, idVars, watchVars, host, sb, agent>>

(* Inputs of the stream: the lines an agent may write *)
LineSet ==
    { Line("text_delta", <<"a">>), Line("text_delta", <<EACUTE>>),
      Line("text_delta", <<>>), Line("tool_start", <<>>),
      Line("text_start", <<>>), Line("input_json_delta", <<>>),
      Line("block_stop", <<>>), Line("assistant", <<>>),
      Line("result", <<"a", "a">>), Line("result", <<"a">>),
      Line("other", <<>>),
      Line("invalid", <<>>), Line("nonobject", <<>>), Line("blank", <<>>) }

StreamInputs ==
    UNION { [1..n -> LineSet] : n \in 1..MaxLines }

StreamHosts == { h \in Hosts : /\ h.setpriv /\ h.sudo /\ h.useradd /\ h.userdel
                               /\ h.require_sandbox /\ ~h.bwrap }

----------------------------------------------------------------------------
(* FileWatcherService and the watch endpoint.  The methods of the service *)
(* hold its lock and contain no await, so each runs as one step; in the   *)
(* endpoint watch_project and add_listener follow each other without the  *)
(* loop running anything in between.  A listener is named by the          *)
(* connection whose on_file_change closure it is.                         *)

Projects == {"p1", "p2"}

Conns == 1..MaxConns

(* the service after watch_project(project): [observers, handlers,        *)
(* callbacks, watches, ret]                                               *)
watch_project(project, started) ==
    IF project \in observers
    THEN [observers |-> observers, handlers |-> handlers,
          callbacks |-> callbacks, watches |-> watches, ret |-> TRUE]
    ELSE IF ~roots[project] \/ ~started
    THEN [observers |-> observers, handlers |-> handlers,
          callbacks |-> callbacks, watches |-> watches, ret |-> FALSE]
    ELSE [observers |-> observers \cup {project},
          handlers |-> handlers \cup {project},
          callbacks |-> [q \in DOMAIN callbacks \cup {project} |->
                            IF q = project THEN {} ELSE callbacks[q]],
          watches |-> [watches EXCEPT ![project] = @ + 1],
          ret |-> TRUE]

(* add_listener on the service state w *)
add_listener(w, project, cb) ==
    IF project \in DOMAIN w.callbacks
    THEN [w EXCEPT !.callbacks[project] = @ \cup {cb}]
    ELSE w

(* _stop_watching_sync: the three entries are popped, the observer stopped *)
stop_watching_sync(w, project) ==
    IF project \notin w.observers THEN w
    ELSE [w EXCEPT !.observers = @ \ {project},
                   !.handlers = @ \ {project},
                   !.callbacks = [q \in DOMAIN @ \ {project} |-> @[q]],
                   !.watches[project] = @ - 1]

(* remove_listener stopping the watch whenever a listener is removed *)
remove_listener_always_stops(w, project, cb) ==
    IF project \in DOMAIN w.callbacks
    THEN stop_watching_sync([w EXCEPT !.callbacks[project] = @ \ {cb}], project)
    ELSE w

(* remove_listener: the watch is stopped when no listener is left *)
remove_listener(w, project, cb) ==
    IF project \in DOMAIN w.callbacks
    THEN LET w1 == [w EXCEPT !.callbacks[project] = @ \ {cb}]
         IN  IF w1.callbacks[project] = {}
             THEN stop_watching_sync(w1, project)
             ELSE w1
    ELSE w

Service == [observers |-> observers, handlers |-> handlers,
            callbacks |-> callbacks, watches |-> watches, ret |-> TRUE]

SetService(w) ==
    /\ observers' = w.observers
    /\ handlers' = w.handlers
    /\ callbacks' = w.callbacks
    /\ watches' = w.watches

NewConn == [pc |-> "idle", project |-> "p1", watching |-> FALSE]

(* the endpoint up to its first send: watch_project, then add_listener;   *)
(* Observer.schedule / start may raise, which watch_project turns into    *)
(* False                                                                  *)
WatchConnect(c, project) ==
    /\ conns[c].pc = "idle"
    /\ \E started \in BOOLEAN :
         LET w == watch_project(project, started)
         IN  /\ SetService(add_listener(w, project, c))
             /\ conns' = [conns EXCEPT ![c] =
                    [pc |-> "connected", project |-> project, watching |-> w.ret]]
    /\ UNCHANGED <<jobVars, idVars, streamVars, host, sb, roots, scheduled, fanout>>

(* the endpoint's finally: remove_listener *)
WatchDisconnect(c) ==
    /\ conns[c].pc = "connected"
    /\ SetService(remove_listener(Service, conns[c].project, c))
    /\ conns' = [conns EXCEPT ![c].pc = "closed"]
    /\ UNCHANGED <<jobVars, idVars, streamVars, host, sb, roots, scheduled, fanout>>

(* the project's root directory is created or removed *)
PathChange(project) ==
    /\ roots' = [roots EXCEPT ![project] = ~@]
    /\ UNCHANGED <<jobVars, idVars, streamVars, host, sb, observers, handlers,
                   callbacks, watches, conns, scheduled, fanout>>

(* A file system event of the watched tree.  An event is [project, kind]: *)
(* kind "file" is an event on a file outside .git, "directory" and "git"  *)
(* are the two kinds on_any_event drops.                                  *)
EventKinds == {"file", "directory", "git"}

NoFanout == [seq |-> 0, project |-> "none", called |-> {}, logged |-> {},
             escaped |-> FALSE]

(* ProjectFileHandler.on_any_event, on the observer's thread: the event   *)
(* of a running watch is dropped or handed to the loop; when              *)
(* call_soon_threadsafe raises (the loop is closed) that is only logged   *)
on_any_event(project, kind) ==
    /\ watches[project] > 0
    /\ Len(scheduled) + fanout.seq < MaxEvents
    /\ \E closed \in BOOLEAN :
         scheduled' = IF kind # "file" \/ closed THEN scheduled
                      ELSE Append(scheduled, project)
    /\ UNCHANGED <<jobVars, idVars, streamVars, host, sb, observers, handlers,
                   callbacks, watches, roots, conns, fanout>>

(* the orders in which a set can be iterated *)
Orders(S) ==
    {f \in [1..Cardinality(S) -> S] : \A i, k \in DOMAIN f : i # k => f[i] # f[k]}

(* the loop of _on_file_change without its try: the first listener that   *)
(* raises ends the loop and the exception leaves the method               *)
RECURSIVE on_file_change_no_try(_, _, _)
on_file_change_no_try(order, raising, acc) ==
    IF order = <<>> THEN acc
    ELSE IF Head(order) \in raising
    THEN [acc EXCEPT !.called = @ \cup {Head(order)}, !.escaped = TRUE]
    ELSE on_file_change_no_try(Tail(order), raising,
             [acc EXCEPT !.called = @ \cup {Head(order)}])

(* the loop of _on_file_change over the copied listener set: each         *)
(* listener is called (or its task created); an Exception is logged and   *)
(* the loop goes on                                                       *)
RECURSIVE on_file_change(_, _, _)
on_file_change(order, raising, acc) ==
    IF order = <<>> THEN acc
    ELSE on_file_change(Tail(order), raising,
             [acc EXCEPT !.called = @ \cup {Head(order)},
                         !.logged = IF Head(order) \in raising
                                    THEN @ \cup {Head(order)} ELSE @])

(* The loop runs the scheduled _on_file_change(project): the listeners    *)
(* registered now are copied and called in the set's iteration order;     *)
(* any of them may raise                                                  *)
RunOnFileChange ==
    /\ scheduled # <<>>
    /\ LET project == Head(scheduled)
           cbs == IF project \in DOMAIN callbacks THEN callbacks[project] ELSE {}
       IN  \E order \in Orders(cbs), raising \in SUBSET cbs :
             fanout' = on_file_change(order, raising,
                          [NoFanout EXCEPT !.seq = fanout.seq + 1,
                                           !.project = project])
    /\ scheduled' = Tail(scheduled)
    /\ UNCHANGED <<jobVars, idVars, streamVars, host, sb, observers, handlers,
                   callbacks, watches, roots, conns>>

----------------------------------------------------------------------------
(* Inputs of the job store: the jobs an enqueue may have created *)

Cfg(type, command, ptype, hasProject) ==
    [type |-> type, command |-> command, ptype |-> ptype,
     hasProject |-> hasProject]

SafeCommands == { <<"l", "s", " ", "&", " ", "p", "s">> }

DeniedCommands ==
    { <<"a", ";", "b">>, <<"a", "&", "&", "b">>, <<"a", "|", "|", "b">>,
      <<"a", "|", "b">>, <<"e", "c", "h", "o", " ", "h", "i", " ", ">", " ", "o">>,
      <<"a", "<", "b">>, <<BACKQUOTE, "a", BACKQUOTE>>, <<"$", "(", "a", ")">>,
      <<"r", "m", " ", "-", "r", "f", " ", "/">>, <<"s", "u", "d", "o", " ", "l", "s">>,
      <<"c", "h", "m", "o", "d", " ", "x">>, <<"c", "h", "o", "w", "n", " ", "x">> }

JobConfigs ==
    { Cfg("BUILD_WEB", <<>>, "flutter", TRUE),
      Cfg("TEST", <<>>, "python", FALSE),
      Cfg("TEST", <<>>, "web", TRUE),
      Cfg("DEV_SERVER", <<>>, "python", TRUE) }
    \cup { Cfg("CUSTOM_COMMAND", c, "other", TRUE) : c \in SafeCommands \cup DeniedCommands }

(* The job runner never looks at the host's tools; its runs are explored *)
(* on the host the deployment asks for: every tool installed, strict mode *)
JobHosts == { h \in Hosts : /\ h.require_sandbox /\ h.firejail /\ h.bwrap
                            /\ h.setpriv /\ h.sudo /\ h.useradd /\ h.userdel }

----------------------------------------------------------------------------
(* Specifications *)

NoJobs ==
    /\ jobcfg = <<>>
    /\ db = <<>>
    /\ tasks = <<>>
    /\ procs = <<>>
    /\ processes = <<>>
    /\ cancels = <<>>
    /\ logs = <<>>
    /\ artifacts = <<>>
    /\ tree = <<>>
    /\ store = {}
    /\ limits = [tasks |-> 0, cancels |-> 0, idcalls |-> 0]
    /\ runner = Started

JobsInit(cfg, maxTasks, maxCancels) ==
    /\ jobcfg = cfg
    /\ tree \in TreesOf(cfg)
    /\ store = {}
    /\ db = [j \in DOMAIN cfg |-> NewRow]
    /\ tasks = <<>>
    /\ procs = <<>>
    /\ processes = [j \in DOMAIN cfg |-> None]
    /\ cancels = <<>>
    /\ logs = [j \in DOMAIN cfg |-> <<>>]
    /\ artifacts = <<>>
    /\ limits = [tasks |-> maxTasks, cancels |-> maxCancels, idcalls |-> 0]
    /\ runner = Started

NoTenants ==
    /\ users = <<>>
    /\ accounts = {}
    /\ groups = {}
    /\ owners = <<>>
    /\ idcalls = <<>>

NoStream ==
    /\ agent = NoAgent
    /\ reader = EndReader(NewReader)
    /\ emitted = <<>>

NoWatch ==
    /\ observers = {}
    /\ handlers = {}
    /\ callbacks = <<>>
    /\ watches = [p \in Projects |-> 0]
    /\ roots = [p \in Projects |-> TRUE]
    /\ conns = <<>>
    /\ scheduled = <<>>
    /\ fanout = NoFanout

Init ==
    /\ \E cfg \in [1..MaxJobs -> JobConfigs] : JobsInit(cfg, MaxTasks, MaxCancels)
    /\ host \in JobHosts
    /\ sb = NoCall
    /\ NoTenants
    /\ NoStream
    /\ NoWatch

Next ==
    \/ process_queued_jobs
    \/ \E t \in TaskIds : RunFetch(t)
    \/ \E t \in TaskIds : RunCommitRunning(t)
    \/ \E t \in TaskIds : RunSpawned(t)
    \/ \E t \in TaskIds : RunSpawnFailed(t)
    \/ \E t \in TaskIds : RunCommitPid(t)
    \/ \E t \in TaskIds : ProcExit(t)
    \/ \E t \in TaskIds : RunAfterWait(t)
    \/ \E t \in TaskIds : ScanEntry(t)
    \/ \E t \in TaskIds : RunCommitFinal(t)
    \/ \E t \in TaskIds : RunCommitFailed(t)
    \/ \E j \in Jobs : CancelCall(j)
    \/ \E c \in CancelIds : CancelAfterSleep(c)
    \/ \E c \in CancelIds : CancelFetch(c)
    \/ \E c \in CancelIds : CancelCommit(c)

Spec == Init /\ [][Next]_vars

(* The builders alone, on every combination of installed tools *)
InitSandbox ==
    /\ NoJobs
    /\ host \in Hosts
    /\ sb = NoCall
    /\ NoTenants
    /\ NoStream
    /\ NoWatch

NextSandbox ==
    \/ CallBuildIsolated
    \/ CallBuildSandboxed

SpecSandbox == InitSandbox /\ [][NextSandbox]_vars

(* The concurrency cap alone: one more job than a poll selects, all of   *)
(* them dev servers (processes that do not exit by themselves), and no    *)
(* cancel request.                                                        *)
CapJobs == [j \in 1..(PollLimit + 1) |-> Cfg("DEV_SERVER", <<>>, "node", TRUE)]

InitCap ==
    /\ JobsInit(CapJobs, PollLimit + 1, 0)
    /\ host \in JobHosts
    /\ sb = NoCall
    /\ NoTenants
    /\ NoStream
    /\ NoWatch

NextCap ==
    \/ process_queued_jobs
    \/ \E t \in TaskIds : RunFetch(t)
    \/ \E t \in TaskIds : RunCommitRunning(t)
    \/ \E t \in TaskIds : RunSpawned(t)
    \/ \E t \in TaskIds : RunCommitPid(t)

SpecCap == InitCap /\ [][NextCap]_vars

(* The artifact scanner: one execution of a build job, of either build    *)
(* type, on every output tree                                             *)
InitScan ==
    /\ \E cfg \in [1..1 -> { Cfg("BUILD_APK", <<>>, "flutter", TRUE),
                             Cfg("BUILD_WEB", <<>>, "flutter", TRUE) }] :
          JobsInit(cfg, 1, 0)
    /\ host \in JobHosts
    /\ sb = NoCall
    /\ NoTenants
    /\ NoStream
    /\ NoWatch

NextScan ==
    \/ process_queued_jobs
    \/ \E t \in TaskIds : RunFetch(t)
    \/ \E t \in TaskIds : RunCommitRunning(t)
    \/ \E t \in TaskIds : RunSpawned(t)
    \/ \E t \in TaskIds : RunSpawnFailed(t)
    \/ \E t \in TaskIds : RunCommitPid(t)
    \/ \E t \in TaskIds : ProcExit(t)
    \/ \E t \in TaskIds : RunAfterWait(t)
    \/ \E t \in TaskIds : ScanEntry(t)
    \/ \E t \in TaskIds : RunCommitFinal(t)
    \/ \E t \in TaskIds : RunCommitFailed(t)

SpecScan == InitScan /\ [][NextScan]_vars

(* The shutdown of the scheduler: jobs of two types, the poll loop, the   *)
(* executions it created and one call of stop()                           *)
InitStop ==
    /\ \E cfg \in [1..MaxJobs -> { Cfg("DEV_SERVER", <<>>, "node", TRUE),
                                   Cfg("TEST", <<>>, "python", TRUE) }] :
          JobsInit(cfg, MaxTasks, 0)
    /\ host \in JobHosts
    /\ sb = NoCall
    /\ NoTenants
    /\ NoStream
    /\ NoWatch

NextStop ==
    \/ process_queued_jobs
    \/ stop
    \/ \E t \in TaskIds : RunFetch(t)
    \/ \E t \in TaskIds : RunCommitRunning(t)
    \/ \E t \in TaskIds : RunSpawned(t)
    \/ \E t \in TaskIds : RunSpawnFailed(t)
    \/ \E t \in TaskIds : RunCommitPid(t)
    \/ \E t \in TaskIds : ProcExit(t)
    \/ \E t \in TaskIds : RunAfterWait(t)
    \/ \E t \in TaskIds : RunCommitFinal(t)
    \/ \E t \in TaskIds : RunCommitFailed(t)

SpecStop == InitStop /\ [][NextStop]_vars

(* The identity registry alone: provision and deprovision calls, in any   *)
(* interleaving, on every combination of account tools                    *)
InitIdentity ==
    /\ jobcfg = <<>>
    /\ db = <<>>
    /\ tasks = <<>>
    /\ procs = <<>>
    /\ processes = <<>>
    /\ cancels = <<>>
    /\ logs = <<>>
    /\ artifacts = <<>>
    /\ tree = <<>>
    /\ store = {}
    /\ limits = [tasks |-> 0, cancels |-> 0, idcalls |-> MaxIdCalls]
    /\ runner = Started
    /\ host \in IdentityHosts
    /\ sb = NoCall
    /\ \E S \in StoredTenants : /\ users = [t \in S |-> NoIdentity]
                                /\ owners = [t \in S |-> None]
    /\ accounts \in HostAccounts
    /\ groups = {[name |-> a.name, gid |-> a.gid, by |-> None] : a \in accounts}
    /\ idcalls = <<>>
    /\ NoStream
    /\ NoWatch

NextIdentity ==
    \/ \E tenant \in TenantIds : ProvisionCall(tenant)
    \/ \E c \in IdCallIds : ProvSelect(c)
    \/ \E c \in IdCallIds : ProvGroupadd(c)
    \/ \E c \in IdCallIds : ProvUseradd(c)
    \/ \E c \in IdCallIds : ProvChown(c)
    \/ \E c \in IdCallIds : ProvCommit(c)
    \/ \E tenant \in TenantIds : DeprovisionCall(tenant)
    \/ \E c \in IdCallIds : DeprovSelect(c)
    \/ \E c \in IdCallIds : DeprovUserdel(c)
    \/ \E c \in IdCallIds : DeprovGroupdel(c)
    \/ \E c \in IdCallIds : DeprovCommit(c)

SpecIdentity == InitIdentity /\ [][NextIdentity]_vars

(* One streaming invocation, for every input of up to MaxLines lines and  *)
(* every way of cutting the output into chunks; the host has the jail, or *)
(* has none while a sandbox is required                                   *)
InitStream ==
    /\ NoJobs
    /\ NoTenants
    /\ host \in StreamHosts
    /\ sb = NoCall
    /\ \E lines \in StreamInputs :
          agent = [state |-> "none", lines |-> lines, rest |-> StreamBytes(lines)]
    /\ reader = NewReader
    /\ emitted = <<>>
    /\ NoWatch

NextStream ==
    \/ StreamSpawn
    \/ StreamReadChunk
    \/ StreamReadEof
    \/ StreamReadTimeout
    \/ AgentExit
    \/ StreamWaited

SpecStream == InitStream /\ [][NextStream]_vars

(* The same under the scheduling the event loop gives the reader: a step  *)
(* of the generator that can be taken is taken (a read returns what has   *)
(* arrived, or its timeout fires).  Nothing makes the agent process exit. *)
SpecStreamFair ==
    /\ SpecStream
    /\ WF_vars(StreamSpawn)
    /\ WF_vars(StreamReadChunk \/ StreamReadEof \/ StreamReadTimeout)
    /\ WF_vars(StreamWaited)

(* The file watcher alone: MaxConns connections of the watch endpoint on  *)
(* two projects whose directories come and go                             *)
InitWatch ==
    /\ NoJobs
    /\ NoTenants
    /\ NoStream
    /\ host \in JobHosts
    /\ sb = NoCall
    /\ observers = {}
    /\ handlers = {}
    /\ callbacks = <<>>
    /\ watches = [p \in Projects |-> 0]
    /\ roots \in [Projects -> BOOLEAN]
    /\ conns = [c \in Conns |-> NewConn]
    /\ scheduled = <<>>
    /\ fanout = NoFanout

NextWatch ==
    \/ \E c \in Conns, project \in Projects : WatchConnect(c, project)
    \/ \E c \in Conns : WatchDisconnect(c)
    \/ \E project \in Projects : PathChange(project)

SpecWatch == InitWatch /\ [][NextWatch]_vars

(* The fan-out of file events: the connections of the watch endpoint come *)
(* and go while the observers report events, on projects whose            *)
(* directories exist or not                                               *)
NextFanout ==
    \/ \E c \in Conns, project \in Projects : WatchConnect(c, project)
    \/ \E c \in Conns : WatchDisconnect(c)
    \/ \E project \in Projects, kind \in EventKinds : on_any_event(project, kind)
    \/ RunOnFileChange

SpecFanout == InitWatch /\ [][NextFanout]_vars

----------------------------------------------------------------------------
(* Properties *)

Finished(t) == tasks[t].pc \in {"done", "failed"}

Spawned(t) == procs[t].state # "none"

(* C1: once a job's persisted status is SUCCESS, FAILED or CANCELLED, no  *)
(* later step changes it.                                                 *)
C1_TerminalIsFinal ==
    [][\A j \in Jobs :
          db[j].status \in Terminal => db'[j].status = db[j].status]_vars

(* C2: in every reachable state a job's persisted pid is non-null if and  *)
(* only if its persisted status is RUNNING.                               *)
C2_PidIffRunning ==
    \A j \in Jobs : (db[j].pid # None) <=> (db[j].status = "RUNNING")

(* C3: the only status changes ever persisted are QUEUED to RUNNING and   *)
(* RUNNING to SUCCESS, FAILED or CANCELLED.                               *)
LegalEdges == { <<"QUEUED", "RUNNING">>, <<"RUNNING", "SUCCESS">>,
                <<"RUNNING", "FAILED">>, <<"RUNNING", "CANCELLED">> }

C3_OnlyLegalEdges ==
    [][\A j \in Jobs :
          db'[j].status # db[j].status
              => <<db[j].status, db'[j].status>> \in LegalEdges]_vars

(* C4: in every reachable state a job whose persisted status is RUNNING   *)
(* has an entry in the handle map.                                        *)
C4_RunningHasHandle ==
    \A j \in Jobs : db[j].status = "RUNNING" => processes[j] # None

(* C5: when cancel_job has signalled the live process of a job and the    *)
(* execution that spawned that process has finished, the job's persisted  *)
(* status is CANCELLED or FAILED, never SUCCESS, and its pid is cleared.  *)
C5_CancelledProcessNeverSucceeds ==
    \A c \in CancelIds :
        (cancels[c].sent /\ Finished(cancels[c].handle))
            => /\ db[cancels[c].job].status \in {"CANCELLED", "FAILED"}
               /\ db[cancels[c].job].pid = None

(* C6: whenever a jail or privilege-drop primitive is available, the      *)
(* command of every process spawned for a job is the output of a sandbox  *)
(* builder on the job's command, never the raw job command.               *)
Wrappings(argv) ==
    { build_isolated_command(host, argv, u, u, a, r).val :
          u \in Uids, a \in PathLists, r \in ReadOnlyLists }
    \cup { build_sandboxed_command(host, argv, a, r).val :
          a \in PathLists, r \in ReadOnlyLists }

C6_SpawnedCommandIsWrapped ==
    \A t \in TaskIds :
        (Spawned(t) /\ (host.firejail \/ host.bwrap \/ (host.setpriv /\ host.sudo)))
            => LET raw == ShellArgv(build_command(jobcfg[tasks[t].job]).val)
               IN  /\ procs[t].cmd # raw
                   /\ procs[t].cmd \in Wrappings(raw)

(* C7: with require_sandbox set and no jail primitive available, every    *)
(* sandbox builder raises; none returns a command.                        *)
C7_StrictModeRaises ==
    (sb.who # "none" /\ host.require_sandbox /\ ~host.firejail /\ ~host.bwrap)
        => ~sb.out.ok

(* C8: at any time at most 5 job processes spawned by the scheduler are   *)
(* alive.                                                                 *)
C8_AtMostFiveAlive ==
    Cardinality({t \in DOMAIN procs : procs[t].state = "alive"}) <= 5

(* C9: a custom-command job whose command contains a denylisted pattern  *)
(* is rejected before any process is spawned: no process is ever started  *)
(* for it, every execution of it ends by persisting FAILED (it is never   *)
(* SUCCESS), and once an execution has ended its log contains the         *)
(* rejection reason, naming a denylisted pattern found in the command.    *)
ClaimDenylist ==
    { <<";">>, <<"&", "&">>, <<"|", "|">>, <<"|">>, <<">">>, <<"<">>,
      <<BACKQUOTE>>, <<"$", "(">>, <<"r", "m", " ", "-", "r", "f">>,
      <<"s", "u", "d", "o">>, <<"c", "h", "m", "o", "d">>,
      <<"c", "h", "o", "w", "n">> }

DeniedJob(j) ==
    /\ jobcfg[j].type = "CUSTOM_COMMAND"
    /\ \E p \in ClaimDenylist : IsSubstring(p, jobcfg[j].command)

RejectionLogged(j) ==
    \E i \in 1..Len(logs[j]) : \E p \in ClaimDenylist :
        /\ IsSubstring(p, jobcfg[j].command)
        /\ logs[j][i] = <<"ERROR: ", "Dangerous pattern in command: ">> \o p

C10_CancelOfTerminalJobIsNoOp ==
    [][\A c \in DOMAIN cancels' : cancels'[c].at \in Terminal =>
          /\ ~cancels'[c].sent
          /\ cancels'[c].ret # "true"
          /\ (c \notin DOMAIN cancels \/ cancels'[c] # cancels[c])
                => (db' = db /\ processes' = processes)]_vars

(* C11: a cancel_job call that found no handle for the job and whose      *)
(* select returned the job with status QUEUED or RUNNING returns true,    *)
(* and its commit leaves the persisted status CANCELLED with finished_at  *)
(* set.                                                                   *)
C11_NoHandleCancelMarksCancelled ==
    [][\A c \in CancelIds :
          (/\ cancels[c].pc = "fetched"
           /\ cancels[c].handle = None
           /\ cancels[c].seen \in {"QUEUED", "RUNNING"}
           /\ cancels'[c].pc = "done")
              => /\ cancels'[c].ret = "true"
                 /\ db'[cancels[c].job].status = "CANCELLED"
                 /\ db'[cancels[c].job].finished]_vars

C11_Witness ==
    \E c \in CancelIds :
        /\ cancels[c].pc = "done"
        /\ cancels[c].handle = None
        /\ cancels[c].at = "RUNNING"
        /\ cancels[c].ret = "true"
        /\ db[cancels[c].job].status = "CANCELLED"
        /\ db[cancels[c].job].finished

(* C12: no two tenants ever hold the same stored uid, whatever the        *)
(* interleaving of the provision calls issued for them.                   *)
C12_StoredUidsDistinct ==
    \A t1 \in DOMAIN users : \A t2 \in DOMAIN users :
        (t1 # t2 /\ users[t1].uid # None) => users[t1].uid # users[t2].uid

C12_Witness ==
    \E t1 \in DOMAIN users : \E t2 \in DOMAIN users :
        /\ t1 # t2
        /\ HasIdentity(users[t1])
        /\ HasIdentity(users[t2])
        /\ \A c \in IdCallIds : idcalls[c].op = "provision"

(* C13: provision is idempotent.  A provision call whose select finds a   *)
(* stored identity returns exactly the stored triple, creates no account  *)
(* or group and writes nothing to the store; and so, as long as the       *)
(* tenant is not deprovisioned, any two provision calls for one tenant    *)
(* return the identical triple and at most one account created for the    *)
(* tenant is on the host.                                                 *)
NeverDeprovisioned(calls, tenant) ==
    \A c \in DOMAIN calls :
        calls[c].tenant = tenant => calls[c].op = "provision"

C13_ProvisionIdempotent ==
    [][/\ \A c \in IdCallIds :
             (/\ idcalls[c].op = "provision"
              /\ idcalls[c].pc = "select"
              /\ idcalls'[c] # idcalls[c]
              /\ idcalls[c].tenant \in DOMAIN users
              /\ HasIdentity(users[idcalls[c].tenant]))
                 => /\ idcalls'[c].pc = "done"
                    /\ idcalls'[c].ret = StoredTriple(users[idcalls[c].tenant])
                    /\ users' = users
                    /\ accounts' = accounts
                    /\ groups' = groups
       /\ \A c1 \in DOMAIN idcalls' : \A c2 \in DOMAIN idcalls' :
             (/\ idcalls'[c1].tenant = idcalls'[c2].tenant
              /\ NeverDeprovisioned(idcalls', idcalls'[c1].tenant)
              /\ idcalls'[c1].ret.kind = "triple"
              /\ idcalls'[c2].ret.kind = "triple")
                 => idcalls'[c1].ret = idcalls'[c2].ret
       /\ \A tenant \in TenantIds :
             NeverDeprovisioned(idcalls', tenant)
                 => Cardinality({a \in accounts' :
                        /\ a.by # None
                        /\ idcalls'[a.by].tenant = tenant}) <= 1]_vars

(* C14: deprovision clears a tenant's stored identity only together with  *)
(* the removal of the OS account and group: when the commit that clears   *)
(* the stored fields is done, no account and no group created for that    *)
(* tenant is left on the host.                                            *)
CreatedFor(entries, calls, tenant) ==
    {e \in entries : e.by # None /\ calls[e.by].tenant = tenant}

C14_ClearedOnlyWithRemoval ==
    [][\A c \in IdCallIds :
          (/\ idcalls[c].op = "deprovision"
           /\ idcalls[c].pc = "commit"
           /\ idcalls'[c].pc = "done"
           /\ ~HasIdentity(users'[idcalls[c].tenant]))
              => /\ CreatedFor(accounts', idcalls', idcalls[c].tenant) = {}
                 /\ CreatedFor(groups', idcalls', idcalls[c].tenant) = {}]_vars

(* C15: every streaming invocation emits exactly one terminal event, the  *)
(* done event or one error event, and no event after it: at any time at   *)
(* most one terminal event has been emitted and it is the last event, and *)
(* an invocation that has ended has emitted one.                          *)
TerminalEvents == {i \in 1..Len(emitted) : emitted[i].type \in {"done", "error"}}

C15_OneTerminalEvent ==
    /\ Cardinality(TerminalEvents) <= 1
    /\ \A i \in TerminalEvents : i = Len(emitted)
    /\ reader.pc = "ended" => Cardinality(TerminalEvents) = 1

(* C16: when the agent's output is a sequence of text_delta events, the   *)
(* concatenation of the emitted text events, in emission order, equals    *)
(* the concatenation of the fragments' texts in arrival order, and so     *)
(* does the accumulated response text, once the whole output is read.     *)
RECURSIVE Fragments(_)
Fragments(lines) ==
    IF lines = <<>> THEN <<>>
    ELSE (IF Head(lines).kind = "text_delta" THEN Head(lines).text ELSE <<>>)
         \o Fragments(Tail(lines))

RECURSIVE EmittedText(_)
EmittedText(events) ==
    IF events = <<>> THEN <<>>
    ELSE (IF Head(events).type = "text" THEN Head(events).text ELSE <<>>)
         \o EmittedText(Tail(events))

C16_TextDeltasReconstructed ==
    (/\ agent.lines # <<>>
     /\ \A i \in DOMAIN agent.lines : agent.lines[i].kind = "text_delta"
     /\ agent.state # "none"
     /\ agent.rest = <<>>)
        => /\ EmittedText(emitted) = Fragments(agent.lines)
           /\ reader.full_response = Fragments(agent.lines)

(* C17: a malformed line (not JSON, or JSON that is not an event record)  *)
(* is skipped and never fatal: reading a chunk never emits an error event *)
(* and never ends the invocation, and once the whole output is read the   *)
(* emitted events, the accumulated text and the decoder state are those   *)
(* of the same output without its malformed lines.  (Checked on outputs   *)
(* of ASCII text, where a chunk boundary cannot alter a line.)            *)
Malformed(line) == line.kind \in {"invalid", "nonobject"}

WellFormed(line) == ~Malformed(line)

AsciiOnly(lines) ==
    \A i \in DOMAIN lines : \A k \in DOMAIN lines[i].text :
        lines[i].text[k] # EACUTE

DecodedWithoutMalformed(lines) ==
    ProcessLines([buffer |-> Decode(StreamBytes(SelectSeq(lines, WellFormed))),
                  full_response |-> <<>>, last_block_was_tool |-> FALSE,
                  out |-> <<>>, raised |-> FALSE])

C17_MalformedLineSkipped ==
    [][(reader.pc = "reading" /\ agent'.rest # agent.rest)
          => /\ reader'.pc = "reading"
             /\ \A i \in (Len(emitted) + 1)..Len(emitted') :
                   emitted'[i].type # "error"
             /\ (AsciiOnly(agent.lines) /\ agent'.rest = <<>>)
                   => LET ref == DecodedWithoutMalformed(agent.lines)
                      IN  /\ emitted' = ref.out
                          /\ reader'.full_response = ref.full_response
                          /\ reader'.last_block_was_tool = ref.last_block_was_tool
      ]_vars

(* C18: for a job whose process exited and that was never cancelled, once *)
(* its execution is over the persisted status is SUCCESS if the exit code *)
(* is 0 and FAILED otherwise, finished_at is set, the pid is cleared and  *)
(* the handle is removed.                                                 *)
NeverCancelled(j) == \A c \in CancelIds : cancels[c].job # j

ExecutionOver(j) ==
    /\ \E t \in TaskIds : tasks[t].job = j
    /\ \A t \in TaskIds : tasks[t].job = j => Finished(t)

C18_ExitCodeDecidesStatus ==
    \A j \in Jobs :
        (NeverCancelled(j) /\ ExecutionOver(j))
            => \A t \in TaskIds :
                 (tasks[t].job = j /\ procs[t].state = "reaped")
                     => /\ db[j].status = IF procs[t].rc = 0 THEN "SUCCESS"
                                                             ELSE "FAILED"
                        /\ db[j].finished
                        /\ db[j].pid = None
                        /\ processes[j] = None

(* C19: when the process of a build job exited with code 0 and artifact   *)
(* capture raised or captured nothing, the job's final persisted status   *)
(* is still SUCCESS (for a job that was never cancelled).                 *)
C19_CaptureFailureKeepsSuccess ==
    \A j \in Jobs :
        (/\ jobcfg[j].type \in {"BUILD_APK", "BUILD_WEB"}
         /\ NeverCancelled(j)
         /\ ExecutionOver(j)
         /\ \A t \in TaskIds :
               tasks[t].job = j => (procs[t].state = "reaped" /\ procs[t].rc = 0)
         /\ \A i \in DOMAIN artifacts : artifacts[i].job # j)
            => db[j].status = "SUCCESS"

(* C20: watch reference counting.  Whenever a project has a registered    *)
(* listener exactly one watch exists for it; remove_listener leaves the   *)
(* watch and the other listeners alone while another listener remains;    *)
(* and when it removes the last listener, no watch, handler or listener   *)
(* set remains for the project.                                           *)
Listeners(cbs, project) ==
    IF project \in DOMAIN cbs THEN cbs[project] ELSE {}

C20_WatchReferenceCounting ==
    [][\A project \in Projects :
          /\ Listeners(callbacks', project) # {}
                => (watches'[project] = 1 /\ project \in observers')
          /\ \A c \in Conns :
                (/\ conns[c].pc = "connected"
                 /\ conns'[c].pc = "closed"
                 /\ conns[c].project = project
                 /\ c \in Listeners(callbacks, project))
                    => IF Listeners(callbacks, project) \ {c} # {}
                       THEN /\ watches'[project] = watches[project]
                            /\ Listeners(callbacks', project)
                                   = Listeners(callbacks, project) \ {c}
                       ELSE /\ watches'[project] = 0
                            /\ project \notin observers'
                            /\ project \notin handlers'
                            /\ project \notin DOMAIN callbacks'
      ]_vars

C20_Witness ==
    \E c1 \in Conns : \E c2 \in Conns :
        /\ conns[c1].pc = "closed"
        /\ conns[c1].watching
        /\ conns[c2].pc = "connected"
        /\ conns[c2].project = conns[c1].project
        /\ c2 \in Listeners(callbacks, conns[c2].project)
        /\ watches[conns[c2].project] = 1
        /\ \E c3 \in Conns :
              /\ conns[c3].pc = "closed"
              /\ conns[c3].watching
              /\ conns[c3].project # conns[c1].project
              /\ watches[conns[c3].project] = 0
              /\ conns[c3].project \notin observers

(* C21: when a file event is fanned out, a listener that raises does not  *)
(* keep the event from any other listener registered for the project: a   *)
(* run of _on_file_change calls every listener registered at that moment, *)
(* whichever of them raise, no exception leaves it, and later events are  *)
(* fanned out in the same way.                                            *)
C21_RaisingListenerIsolated ==
    [][fanout'.seq # fanout.seq
          => /\ fanout'.called = Listeners(callbacks, fanout'.project)
             /\ ~fanout'.escaped]_vars

C21_Witness ==
    /\ fanout.seq = 2
    /\ fanout.logged # {}
    /\ fanout.called \ fanout.logged # {}
    /\ Cardinality(fanout.called) = 3

(* C22: a scan_and_create call creates exactly one Artifact row for each  *)
(* configured output path that exists and is stored successfully, and     *)
(* none for a path that does not exist; the row points at the file        *)
(* written and records its size; an existing directory gives one row      *)
(* whose file is the archive, with the archive's size; the list the call  *)
(* builds names exactly the rows it created.                              *)
RowsOf(t, k) == {i \in DOMAIN artifacts : artifacts[i].by = t /\ artifacts[i].entry = k}

FilesOf(t, k) == {f \in store : f.id = <<t, k>>}

NothingStored(tenant) ==
    tenant \notin DOMAIN users \/ users[tenant].username = <<>>

C24_DeprovisionIdempotent ==
    [][\A c \in DOMAIN idcalls' :
          (/\ idcalls'[c].op = "deprovision"
           /\ idcalls'[c].pc = "done"
           /\ c \in DOMAIN idcalls => idcalls[c].pc = "select"
           /\ NothingStored(idcalls'[c].tenant))
              => /\ idcalls'[c].ret = Returned(TRUE)
                 /\ users' = users
                 /\ accounts' = accounts
                 /\ groups' = groups]_vars

CommittedRunning(t) ==
    /\ jobcfg[tasks[t].job].hasProject
    /\ tasks[t].pc \notin {"start", "fetched"}

C26_JobClaimedOnce ==
    \A j \in Jobs :
        /\ Cardinality({t \in TaskIds : tasks[t].job = j /\ CommittedRunning(t)}) <= 1
        /\ Cardinality({t \in TaskIds : tasks[t].job = j /\ Spawned(t)}) <= 1

(* C27: once a cancel_job call has persisted CANCELLED for a job through  *)
(* the no-handle path, no process is spawned for that job afterwards and  *)
(* no handle is registered for it.                                        *)
C27_NoSpawnAfterCancel ==
    [][\A c \in CancelIds :
          (/\ cancels[c].pc = "done"
           /\ cancels[c].handle = None
           /\ cancels[c].ret = "true")
              => /\ \A t \in TaskIds :
                       (tasks[t].job = cancels[c].job /\ ~Spawned(t))
                           => procs'[t].state = "none"
                 /\ processes'[cancels[c].job] # processes[cancels[c].job]
                       => processes'[cancels[c].job] = None]_vars

(* C28: uid allocation is serialized: at most one provision call at a     *)
(* time is between its scan of the host's accounts and the commit of its  *)
(* mapping, so no two calls hold the same scanned uid.                    *)
Allocating ==
    {c \in IdCallIds : /\ idcalls[c].op = "provision"
                       /\ idcalls[c].pc \in {"groupadd", "useradd", "chown", "commit"}}

C28_AllocationSerialized ==
    /\ Cardinality(Allocating) <= 1
    /\ \A c1 \in Allocating : \A c2 \in Allocating :
          c1 # c2 => idcalls[c1].uid # idcalls[c2].uid

(* C29: the command of a job is built and validated before the job is     *)
(* made RUNNING: a job whose command is rejected is never persisted with  *)
(* status RUNNING and never gets started_at.                              *)
C29_RejectedNeverRunning ==
    \A j \in Jobs :
        ~build_command(jobcfg[j]).ok
            => /\ db[j].status # "RUNNING"
               /\ ~db[j].started

(* C30: a job whose project is missing goes to FAILED without ever being  *)
(* RUNNING, no process is spawned for it, and once its execution has      *)
(* ended its log holds a diagnostic naming the missing project.           *)
C30_MissingProjectFails ==
    \A t \in TaskIds :
        LET j == tasks[t].job
        IN  ~jobcfg[j].hasProject
                => /\ db[j].status # "RUNNING"
                   /\ ~db[j].started
                   /\ ~Spawned(t)
                   /\ tasks[t].pc # "done"
                   /\ tasks[t].pc = "failed"
                         => \E i \in DOMAIN logs[j] :
                               logs[j][i] = <<"ERROR: ", "Project not found">>

(* C31: a job whose type is not supported for its project's type - a dev  *)
(* server job or a test job on a project type for which no command is     *)
(* configured - is a validation error: no process is spawned for it, no   *)
(* execution of it ends normally, and once an execution has ended the     *)
(* reason is in the job's log.                                            *)
Unsupported(j) ==
    \/ jobcfg[j].type = "DEV_SERVER" /\ jobcfg[j].ptype \notin {"flutter", "node"}
    \/ jobcfg[j].type = "TEST" /\ jobcfg[j].ptype \notin {"flutter", "node", "python"}

C31_UnsupportedTypeFails ==
    \A t \in TaskIds :
        LET j == tasks[t].job
        IN  (Unsupported(j) /\ jobcfg[j].hasProject)
                => /\ ~Spawned(t)
                   /\ tasks[t].pc # "done"
                   /\ tasks[t].pc = "failed"
                         => \E i \in DOMAIN logs[j] :
                               SubSeq(logs[j][i], 1, 1) = <<"ERROR: ">>

(* C32: a streaming invocation always ends: once the read timeout has     *)
(* fired, the reader finishes (its generator returns) whether or not the  *)
(* agent process ever exits.                                              *)
TimedOut ==
    /\ reader.pc = "waiting"
    /\ emitted # <<>>
    /\ emitted[Len(emitted)].type = "error"

C32_TimeoutEndsInvocation == TimedOut ~> (reader.pc = "ended")

(* C33: when a result event is decoded, the text emitted for it is the    *)
(* part of the result's text not emitted yet: once an output that ends    *)
(* with a result event has been read and decoded, the concatenation of    *)
(* the emitted text events is the result's text, and so is the            *)
(* accumulated text.                                                      *)
C33_ResultCompletesText ==
    (/\ agent.state # "none"
     /\ agent.rest = <<>>
     /\ reader.buffer = <<>>
     /\ \A i \in DOMAIN emitted : emitted[i].type # "error"
     /\ agent.lines[Len(agent.lines)].kind = "result")
        => /\ EmittedText(emitted) = agent.lines[Len(agent.lines)].text
           /\ reader.full_response = agent.lines[Len(agent.lines)].text

(* C34: after stop() has been called no poll creates executions, no job   *)
(* is moved from QUEUED to RUNNING and no job is given a process, and     *)
(* every process that was tracked and alive at the call has been sent     *)
(* SIGTERM.                                                               *)
C34_StopAcceptsNoWork ==
    [][~runner.running =>
          /\ Len(tasks') = Len(tasks)
          /\ \A j \in Jobs :
                ~(db[j].status = "QUEUED" /\ db'[j].status = "RUNNING")
          /\ \A t \in TaskIds : procs[t].state = "none" => procs'[t].state = "none"
          /\ \A t \in runner.tracked :
                procs[t].state = "alive" => procs[t].termed]_vars

(* C35: while a process of a job is alive it is the only writer of the    *)
(* job's log file: no step of the engine writes to or truncates the file *)
(* and no second process is started for the job.                          *)
C35_SingleLogWriter ==
    [][\A j \in Jobs :
          (\E t \in TaskIds : tasks[t].job = j /\ procs[t].state = "alive")
              => /\ logs'[j] = logs[j]
                 /\ \A u \in TaskIds :
                       (tasks[u].job = j /\ procs[u].state = "none")
                           => procs'[u].state = "none"]_vars

(* C36: the identity store and the host agree and stay stable: a tenant   *)
(* with a stored identity, and no deprovision of it under way, has an OS  *)
(* account with the stored username and the stored uid, and no step       *)
(* changes a stored (username, uid) other than by clearing it.            *)
C36_StoreAndHostAgree ==
    [][/\ \A tenant \in DOMAIN users' :
             LET busy == \E c \in DOMAIN idcalls' :
                            /\ idcalls'[c].op = "deprovision"
                            /\ idcalls'[c].tenant = tenant
                            /\ idcalls'[c].pc # "done"
             IN  (HasIdentity(users'[tenant]) /\ ~busy)
                     => \E a \in accounts' :
                           /\ a.name = users'[tenant].username
                           /\ a.uid = users'[tenant].uid
       /\ \A tenant \in DOMAIN users :
             HasIdentity(users[tenant])
                 => users'[tenant] \in {users[tenant], NoIdentity}]_vars

(* C38: a provision call that raised has left nothing behind: no group    *)
(* and no account created by that call is on the host.                    *)
C38_FailedProvisionNoResidue ==
    \A c \in IdCallIds :
        (idcalls[c].op = "provision" /\ idcalls[c].ret.kind = "raise")
            => /\ \A g \in groups : g.by # c
               /\ \A a \in accounts : a.by # c

(* C37: a paragraph break is emitted, and added to the accumulated text,  *)
(* exactly when a text block starts, the block started before it was a    *)
(* tool invocation and some text has been accumulated already; it comes   *)
(* before any text of the new block.  Stated on the text events of a      *)
(* wholly read output (ASCII text, no result event, no line that ends the *)
(* loop): they are the non-empty text fragments in order, with a break    *)
(* at each such block start.  With needText FALSE the break is expected   *)
(* at every text block start that follows a tool block.                   *)
RECURSIVE ExpectedTexts(_, _, _, _)
ExpectedTexts(lines, prevTool, hasText, needText) ==
    IF lines = <<>> THEN <<>>
    ELSE LET l == Head(lines)
             rest == Tail(lines)
         IN  CASE l.kind = "tool_start" ->
                      ExpectedTexts(rest, TRUE, hasText, needText)
               [] l.kind = "text_start" ->
                      (IF prevTool /\ (hasText \/ ~needText)
                       THEN <<TextEvent(<<NEWLINE, NEWLINE>>)>> ELSE <<>>)
                      \o ExpectedTexts(rest, FALSE,
                             hasText \/ (prevTool /\ ~needText), needText)
               [] l.kind = "text_delta" /\ l.text # <<>> ->
                      <<TextEvent(l.text)>>
                      \o ExpectedTexts(rest, prevTool, TRUE, needText)
               [] OTHER -> ExpectedTexts(rest, prevTool, hasText, needText)

IsText(e) == e.type = "text"

BlocksRead ==
    /\ agent.state # "none"
    /\ agent.rest = <<>>
    /\ AsciiOnly(agent.lines)
    /\ \A i \in DOMAIN agent.lines :
          agent.lines[i].kind \notin {"result", "nonobject"}

C39_ListenerRegisteredAfterAdd ==
    \A c \in DOMAIN conns :
        conns[c].pc = "connected"
            => /\ conns[c].project \in DOMAIN callbacks
               /\ c \in callbacks[conns[c].project]

====
